---- MODULE Spec2Model ----
(***************************************************************************)
(* Client / window object model of the fluxbox window manager:             *)
(*   src/src/WinClient.cc  - WinClient: hints, transient edge, wait list,  *)
(*                           size-hint solver                              *)
(*   src/src/Window.cc     - FluxboxWindow: the Frame holding clients as   *)
(*                           tabs, focus delegation                        *)
(*                                                                         *)
(* The specifications that share the module:                               *)
(*   SpecSH - applySizeHints as a pure function over bounded hint sets     *)
(*   SpecT  - the transient graph and the transient wait list              *)
(*   SpecF  - Frames: attach / detach / remove / focus, over clients that  *)
(*            carry transient edges and modal flags                        *)
(*   SpecM  - focus attempts on Frames of modal clients                    *)
(*   SpecI  - focus attempts over clients whose input model changes        *)
(*   SpecR  - raise, lower, tempRaise over transient chains whose hints    *)
(*            change, the reentrancy flag                                  *)
(*   SpecL  - stacking layers of transient trees                           *)
(*   SpecK  - iconify / deiconify of Frames and their transient families   *)
(*   SpecW  - maximize, shade and stick: geometry and window state         *)
(*   SpecE  - map, unmap, map-request and configure-request notifications  *)
(*   SpecD  - Frames that are destroyed while they hold clients            *)
(*   SpecP  - decoration flags and the hint properties of tabbed clients   *)
(*   SpecZ  - interactive resize by the grips, under width hints           *)
(***************************************************************************)
EXTENDS Integers, Sequences, FiniteSets, TLC

VARIABLES
    \* ---- size-hint solver (WinClient::applySizeHints) ----
    m_size_hints,   \* the client's size-hint snapshot
    arg_width,      \* proposed width  (int &width on entry)
    arg_height,     \* proposed height (int &height on entry)
    arg_maximizing, \* the maximizing argument
    ub_cast,        \* what an out-of-range double -> int conversion yields
    res1,           \* result of the first application, or NoRes
    res2,           \* result of applying applySizeHints to res1, or NoRes
    sh_pc,          \* "start" | "applied" | "reapplied"
    \* ---- clients and the transient graph (WinClient) ----
    registered,        \* handles that have a WinClient (Fluxbox window search)
    wm_transient_for,  \* per window: the WM_TRANSIENT_FOR property on the server
    transient_for,     \* per client: WinClient::transient_for (0 = none)
    transients,        \* per client: WinClient::transients, a list of clients
    m_modal,           \* per client: WinClient::m_modal
    m_modal_count,     \* per client: WinClient::m_modal_count
    s_transient_wait,  \* WinClient::s_transient_wait: handle -> waiting clients
    \* ---- Frames (FluxboxWindow) ----
    frame_live,        \* the FluxboxWindow objects that exist
    m_clientlist,      \* per Frame: the tab order
    m_client,          \* per Frame: the active client (0 = null)
    m_labelbuttons,    \* per Frame: client -> "none" | "btn" | "null"
    m_win,             \* per client: the owning Frame (0 = none)
    group_left,        \* per client: the _FLUXBOX_GROUP_LEFT property
    accepts_input,     \* per client: WinClient::accepts_input
    send_focus_message, \* per client: WinClient::send_focus_message
    iconic,            \* per Frame: FluxboxWindow::iconic
    m_layernum,        \* per Frame: FluxboxWindow::m_layernum
    layer_item,        \* per Frame: the layer its XLayerItem is in
    oplock,            \* per Frame: FluxboxWindow::oplock
    m_current_state,   \* per Frame: FluxboxWindow::m_current_state
    wm_state,          \* per Frame: the WM_STATE property its clients carry
    shaded,            \* per Frame: FluxboxWindow::shaded
    stuck,             \* per Frame: FluxboxWindow::stuck
    maximized,         \* per Frame: FluxboxWindow::maximized, a set of directions
    frame_geom,        \* per Frame: x, y, width, height of its FbWinFrame
    m_old,             \* per Frame: m_old_pos_x, m_old_pos_y, m_old_width, m_old_height
    m_attaching_tab,   \* per Frame: FluxboxWindow::m_attaching_tab (0 = none)
    decorations,       \* per Frame: FluxboxWindow::decorations, the flags
    functions,         \* per Frame: FluxboxWindow::functions, the flags
    m_old_decoration,  \* per Frame: FluxboxWindow::m_old_decoration
    x_property,        \* per window: its hint properties on the server
    hint_snapshot,     \* per client: what the WinClient last read of them
    resizing,          \* per Frame: FluxboxWindow::resizing
    m_last_resize,     \* per Frame: m_last_resize_x, _y, _w, _h
    m_button_grab,     \* per Frame: m_button_grab_x, m_button_grab_y
    xlog,              \* the requests the last operation sent to the display
    \* ---- bookkeeping ----
    fault,             \* "none", or why the process stopped
    geom0,             \* per Frame: the geometry it started with
    decor0,            \* per Frame: the flags before its last toggleDecoration
    last,              \* the operation that led to this state
    budget             \* how many more operations the run may take

shvars == <<m_size_hints, arg_width, arg_height, arg_maximizing, ub_cast,
            res1, res2, sh_pc>>

gvars == <<registered, wm_transient_for, transient_for, transients, m_modal,
           m_modal_count, s_transient_wait, frame_live, m_clientlist, m_client,
           m_labelbuttons, m_win, group_left, accepts_input,
          send_focus_message, iconic, m_layernum, layer_item, oplock,
          m_current_state, wm_state, shaded, stuck, maximized, frame_geom,
          m_old, m_attaching_tab, decorations, functions, m_old_decoration,
          x_property, hint_snapshot, resizing, m_last_resize, m_button_grab,
          xlog, fault, geom0, decor0, last, budget>>

vars == <<m_size_hints, arg_width, arg_height, arg_maximizing, ub_cast,
          res1, res2, sh_pc,
          registered, wm_transient_for, transient_for, transients, m_modal,
          m_modal_count, s_transient_wait, frame_live, m_clientlist, m_client,
          m_labelbuttons, m_win, group_left, accepts_input,
          send_focus_message, iconic, m_layernum, layer_item, oplock,
          m_current_state, wm_state, shaded, stuck, maximized, frame_geom,
          m_old, m_attaching_tab, decorations, functions, m_old_decoration,
          x_property, hint_snapshot, resizing, m_last_resize, m_button_grab,
          xlog, fault, geom0, decor0, last, budget>>

-----------------------------------------------------------------------------
(***************************************************************************)
(* Machine integers.  The program's int / unsigned int are 32 bits wide;   *)
(* the model keeps the same wrap-around structure on IntBits-bit words so  *)
(* that every intermediate value stays inside the checker's integers.      *)
(***************************************************************************)
IntBits == 16
MaxDim == 6

UIntRange == 2 ^ IntBits
IntMax == 2 ^ (IntBits - 1) - 1
IntMin == 0 - 2 ^ (IntBits - 1)

\* arithmetic performed in unsigned int
UWrap(x) == x % UIntRange
\* static_cast<signed>(u), and the conversion of an unsigned value stored in an int
ToSigned(u) == IF UWrap(u) > IntMax THEN UWrap(u) - UIntRange ELSE UWrap(u)
\* int / int: C++ truncates toward zero
TruncDiv(a, b) == IF a >= 0 THEN a \div b ELSE 0 - ((0 - a) \div b)
\* static_cast<int>(double) of the non-negative value num/den; outside the
\* range of int the conversion is undefined: the build yields ub
CastInt(num, den, ub) == IF num \div den > IntMax THEN ub ELSE num \div den

NoRes == [width |-> 0, height |-> 0, display_width |-> 0, display_height |-> 0,
          valid |-> FALSE]

\* closest point to the line through the origin with gradient ga/gb, as the
\* pair of exact fractions <<ret_x, ret_y>> over the common denominator
closestPointToLine(point_x, point_y, ga, gb) ==
    [x_num |-> point_x * ga * ga + point_y * ga * gb,
     y_num |-> point_x * ga * gb + point_y * gb * gb,
     den   |-> ga * ga + gb * gb]

\* lines 770-804: the aspect-ratio correction; returns <<width, height>>
applyAspect(sh, width, height, maximizing, ub) ==
    IF ~(sh.min_aspect_y > 0 /\ sh.max_aspect_y > 0
         /\ UWrap(height - sh.base_height) > 0)
    THEN <<width, height>>
    ELSE
      LET widthd  == UWrap(width - sh.base_width)
          heightd == UWrap(height - sh.base_height)
          \* max > 0 && min > 0 && actual > 0
          try == sh.max_aspect_x > 0 /\ sh.min_aspect_x > 0 /\ widthd > 0
          below == widthd * sh.min_aspect_y < sh.min_aspect_x * heightd
          above == widthd * sh.max_aspect_y > sh.max_aspect_x * heightd
          pmin == closestPointToLine(widthd, heightd, sh.min_aspect_x, sh.min_aspect_y)
          pmax == closestPointToLine(widthd, heightd, sh.max_aspect_x, sh.max_aspect_y)
          back(wi, hi) == <<ToSigned(wi + sh.base_width), ToSigned(hi + sh.base_height)>>
      IN  IF ~try THEN <<width, height>>
          ELSE IF below THEN
              IF maximizing
              THEN back(CastInt(widthd, 1, ub),
                        CastInt(widthd * sh.min_aspect_y, sh.min_aspect_x, ub))
              ELSE back(CastInt(pmin.x_num, pmin.den, ub),
                        CastInt(pmin.y_num, pmin.den, ub))
          ELSE IF above THEN
              IF maximizing
              THEN back(CastInt(heightd * sh.max_aspect_x, sh.max_aspect_y, ub),
                        CastInt(heightd, 1, ub))
              ELSE back(CastInt(pmax.x_num, pmax.den, ub),
                        CastInt(pmax.y_num, pmax.den, ub))
          ELSE <<width, height>>

\* lines 731-742: minimum, then maximum (0 = unbounded)
clampDim(v, lo, hi) ==
    LET a == IF v < 0 \/ v < ToSigned(lo) THEN ToSigned(lo) ELSE v
    IN  IF hi > 0 /\ a > ToSigned(hi) THEN ToSigned(hi) ELSE a

\* lines 808-816: the cell count of one dimension
cellOf(v, base, inc) == TruncDiv(ToSigned(v - ToSigned(base)), ToSigned(inc))

applySizeHints(sh, width, height, maximizing, ub) ==
    LET w1 == clampDim(width, sh.min_width, sh.max_width)
        h1 == clampDim(height, sh.min_height, sh.max_height)
        a  == applyAspect(sh, w1, h1, maximizing, ub)
        i  == cellOf(a[1], sh.base_width, sh.width_inc)
        j  == cellOf(a[2], sh.base_height, sh.height_inc)
    IN  [width  |-> ToSigned(i * ToSigned(sh.width_inc) + ToSigned(sh.base_width)),
         height |-> ToSigned(j * ToSigned(sh.height_inc) + ToSigned(sh.base_height)),
         display_width |-> i, display_height |-> j, valid |-> TRUE]

\* lines 825-848 of WinClient.cc; width and height are unsigned.  The ratio
\* is a double: with height 0 it is infinite, or no number when width is 0
\* too, and a comparison with no number is false
checkSizeHints(sh, width, height) ==
    IF width < sh.min_width \/ height < sh.min_height THEN FALSE
    ELSE IF width > sh.max_width \/ height > sh.max_height THEN FALSE
    ELSE IF UWrap(width - sh.base_width) % sh.width_inc # 0 THEN FALSE
    ELSE IF UWrap(height - sh.base_height) % sh.height_inc # 0 THEN FALSE
    ELSE IF /\ sh.min_aspect_y > 0
            /\ height > 0
            /\ sh.min_aspect_x * height > width * sh.min_aspect_y
    THEN FALSE
    ELSE IF /\ sh.max_aspect_y > 0
            /\ IF height > 0 THEN sh.max_aspect_x * height < width * sh.max_aspect_y
               ELSE width > 0
    THEN FALSE
    ELSE TRUE

-----------------------------------------------------------------------------
(***************************************************************************)
(* Clients.  A WinClient is identified with the handle of its window, so   *)
(* a handle that is registered again after its client was destroyed        *)
(* stands for a new WinClient built where the old one was.                 *)
(***************************************************************************)
NumClients == 3
MaxTransients == 3
MaxModalCount == 2
\* the longest run of operations the checks explore
MaxOps == 5
\* the longest run of operations on Frames the checks explore
MaxFrameOps == 3

Clients == 1 .. NumClients
None == 0
RootWin == NumClients + 1
\* XGetTransientForHint fails: the window has no WM_TRANSIENT_FOR property
NoHint == 0 - 1
HintVals == {NoHint, None, RootWin} \cup Clients
\* the handles that can key the wait list
WaitKeys == 0 .. NumClients

NoEntry == [present |-> FALSE, list |-> <<>>]

SeqRemove(s, x) == SelectSeq(s, LAMBDA y : y # x)
Contains(s, x) == \E i \in 1 .. Len(s) : s[i] = x
Count(s, x) == Cardinality({i \in 1 .. Len(s) : s[i] = x})

\* the process stops (a crash, or an operation that never returns)
Fault(S, why) == IF S.fault = "none" THEN [S EXCEPT !.fault = why] ELSE S

\* Fluxbox::searchWindow: the WinClient registered for a window, or 0
searchWindow(S, win) == IF win \in S.registered THEN win ELSE 0

\* WinClient::isModal
isModal(S, c) == S.m_modal[c]

\* WinClient::addModal / removeModal
addModal(S, c) == [S EXCEPT !.m_modal_count[c] = @ + 1]
removeModal(S, c) == [S EXCEPT !.m_modal_count[c] = @ - 1]

\* lines 850-873: take the client off every entry, erase the entries left empty
removeTransientFromWaitingList(S, this) ==
    [S EXCEPT !.s_transient_wait =
        [k \in WaitKeys |->
            IF ~S.s_transient_wait[k].present THEN NoEntry
            ELSE LET l == SeqRemove(S.s_transient_wait[k].list, this)
                 IN  IF l = <<>> THEN NoEntry ELSE [present |-> TRUE, list |-> l]]]

\* s_transient_wait[win].push_back(this)
waitPush(S, win, this) ==
    [S EXCEPT !.s_transient_wait[win] =
        [present |-> TRUE, list |-> Append(@.list, this)]]

\* the walk of lines 331-334 left out
breakLoopSkipped(tf, w, this, fuel) == [tf |-> tf, looped |-> FALSE]

\* lines 331-334: walk up from this, clearing the edge that leads back to this
RECURSIVE breakLoop(_, _, _, _)
breakLoop(tf, w, this, fuel) ==
    IF w = 0 THEN [tf |-> tf, looped |-> FALSE]
    ELSE IF fuel = 0 THEN [tf |-> tf, looped |-> TRUE]
    ELSE LET tf2 == IF tf[w] = this THEN [tf EXCEPT ![w] = 0] ELSE tf
         IN  breakLoop(tf2, tf2[w], this, fuel - 1)

\* lines 277-283: remove this from its parent
unlinkFromParent(S, this) ==
    LET p == S.transient_for[this]
        R == [S EXCEPT !.transients[p] = SeqRemove(@, this),
                       !.transient_for[this] = 0]
    IN  IF p = 0 THEN S
        ELSE IF S.m_modal[this] THEN removeModal(R, p) ELSE R

\* lines 308-323: look the declared window up, wait for it if it has no client
resolveTarget(S, this, win) ==
    IF searchWindow(S, win) # 0
    THEN [S EXCEPT !.transient_for[this] = searchWindow(S, win)]
    ELSE waitPush(removeTransientFromWaitingList(S, this), win, this)

\* lines 336-342: bl is what the walk of lines 331-334 left
linkToParent(S, this, bl) ==
    LET q == bl.tf[this]
        A == [S EXCEPT !.transient_for = bl.tf,
                       !.transients[q] = Append(@, this)]
    IN  IF bl.looped THEN Fault([S EXCEPT !.transient_for = bl.tf], "transient_loop")
        ELSE IF q = 0 THEN [S EXCEPT !.transient_for = bl.tf]
        ELSE IF S.m_modal[this] THEN addModal(A, q) ELSE A

\* lines 331-343
walkAndLink(S, this) ==
    linkToParent(S, this, breakLoop(S.transient_for, this, this, NumClients + 1))

\* lines 275-344
updateTransientInfo(S, this) ==
    LET win == S.wm_transient_for[this]
    IN  IF S.fault # "none" THEN S
        ELSE IF win = NoHint THEN unlinkFromParent(S, this)
        ELSE IF win = this THEN unlinkFromParent(S, this)
        ELSE IF win # None /\ win = RootWin THEN unlinkFromParent(S, this)
        ELSE walkAndLink(resolveTarget(unlinkFromParent(S, this), this, win), this)

\* lines 107-109: for_each over s_transient_wait[win].  A waiter whose update
\* takes it off the list under iteration invalidates the iterator: the walk
\* goes on from the freed node as if it were intact (ub), or the process dies
RECURSIVE forEachWaiter(_, _, _, _, _)
\* T is the world after the update of the waiter l[i]
afterWaiter(S, T, l, i, win, ub) ==
    IF T.s_transient_wait[win] # S.s_transient_wait[win] /\ ~ub
    THEN Fault(T, "waitlist_iterator")
    ELSE forEachWaiter(T, l, i + 1, win, ub)

forEachWaiter(S, l, i, win, ub) ==
    IF S.fault # "none" \/ i > Len(l) THEN S
    ELSE afterWaiter(S, updateTransientInfo(S, l[i]), l, i, win, ub)

\* lines 65-99: the members as the constructor initialises them, the window
\* entered in the window search
newClient(S, this, h) ==
    [S EXCEPT !.registered = @ \cup {this},
              !.wm_transient_for[this] = h,
              !.transient_for[this] = 0,
              !.transients[this] = <<>>,
              !.m_modal[this] = FALSE,
              !.m_modal_count[this] = 0,
              !.accepts_input[this] = TRUE,
              !.send_focus_message[this] = FALSE,
              !.m_win[this] = 0]

\* what the WM_HINTS property says about input: no property or no InputHint
\* flag ("absent"), or the input field
InputHints == {"absent", "true", "false"}

\* lines 415-436 of WinClient.cc
updateWMHints(S, this, input) ==
    [S EXCEPT !.accepts_input[this] = (input # "false")]

\* what XGetWMProtocols yields: failure, or a list with or without
\* WM_TAKE_FOCUS
ProtocolLists == {"failed", "take_focus", "other"}

\* lines 665-690 of WinClient.cc
updateWMProtocols(S, this, proto) ==
    IF proto = "failed" THEN S
    ELSE [S EXCEPT !.send_focus_message[this] = (proto = "take_focus")]

\* lines 104-112
resolveWaiters(S, this, ub) ==
    IF S.s_transient_wait[this].present
    THEN [forEachWaiter(S, S.s_transient_wait[this].list, 1, this, ub)
            EXCEPT !.s_transient_wait[this] = NoEntry]
    ELSE S

\* the constructor without lines 104-112: the waiters are left unresolved
WinClientCtorNoWaiters(S, this, h, ub) ==
    updateTransientInfo(newClient(S, this, h), this)

\* lines 65-118: WinClient::WinClient for window `this` whose property reads h
WinClientCtor(S, this, h, ub) ==
    updateTransientInfo(resolveWaiters(newClient(S, this, h), this, ub), this)

\* lines 602-617
setStateModal(S, this, state) ==
    IF state = S.m_modal[this] THEN S
    ELSE LET S1 == [S EXCEPT !.m_modal[this] = state]
             p  == S.transient_for[this]
         IN  IF p # 0
             THEN IF state THEN addModal(S1, p) ELSE removeModal(S1, p)
             ELSE S1

\* lines 140-143 with the list dropped and the back pointers left alone
orphanTransientsListOnly(S, this, ub) == [S EXCEPT !.transients[this] = <<>>]

\* lines 140-143: orphan the transients, last first.  An entry that names a
\* destroyed client is written through a dangling pointer: the write lands in
\* freed memory (ub), or the process dies
RECURSIVE orphanTransients(_, _, _)
orphanTransients(S, this, ub) ==
    IF S.fault # "none" \/ S.transients[this] = <<>> THEN S
    ELSE LET l == S.transients[this]
             t == l[Len(l)]
             P == [S EXCEPT !.transients[this] = SubSeq(l, 1, Len(l) - 1)]
         IN  IF t \in S.registered
             THEN orphanTransients([P EXCEPT !.transient_for[t] = 0], this, ub)
             ELSE IF ub THEN orphanTransients(P, this, ub)
             ELSE Fault(P, "dangling_transient")

\* lines 132-143 of WinClient::~WinClient
dtorTransients(S, this, ub) ==
    LET p  == S.transient_for[this]
        S1 == IF p # 0
              THEN LET R == [S EXCEPT !.transients[p] = SeqRemove(@, this),
                                      !.transient_for[this] = 0]
                   IN  IF S.m_modal[this] THEN removeModal(R, p) ELSE R
              ELSE S
    IN  orphanTransients(S1, this, ub)

\* the destructor without lines 156-157: the wait list keeps the client
dtorRegistryKeepWait(S, this) ==
    IF S.fault # "none" THEN S
    ELSE [S EXCEPT !.registered = @ \ {this},
                   !.wm_transient_for[this] = NoHint,
                   !.transient_for[this] = 0,
                   !.transients[this] = <<>>,
                   !.m_modal[this] = FALSE,
                   !.m_modal_count[this] = 0,
                   !.accepts_input[this] = FALSE,
                   !.send_focus_message[this] = FALSE,
                   !.m_win[this] = 0,
                   !.group_left[this] = None]

\* lines 152-169 of WinClient::~WinClient; the freed object reads as a
\* client that was never used
dtorRegistry(S, this) ==
    IF S.fault # "none" THEN S
    ELSE LET S1 == removeTransientFromWaitingList(S, this)
         IN  [S1 EXCEPT !.s_transient_wait[this] = NoEntry,
                        !.registered = @ \ {this},
                        !.wm_transient_for[this] = NoHint,
                        !.transient_for[this] = 0,
                        !.transients[this] = <<>>,
                        !.m_modal[this] = FALSE,
                        !.m_modal_count[this] = 0,
                        !.accepts_input[this] = FALSE,
                        !.send_focus_message[this] = FALSE,
                        !.m_win[this] = 0,
                        !.group_left[this] = None]

-----------------------------------------------------------------------------
(***************************************************************************)
(* Frames.  A FluxboxWindow is identified with a slot of Frames; a slot is *)
(* handed out again only once no client refers to the destroyed Frame.     *)
(* V is the set of clients for which validateClient finds no pending       *)
(* destroy or unmap event; ub tells how undefined behaviour turns out      *)
(* (TRUE: the access goes through unnoticed, FALSE: the process dies).     *)
(***************************************************************************)
NumFrames == 3
Frames == 1 .. NumFrames
\* the layers are numbered 0 .. MaxLayer, the menu layer on top
MaxLayer == 3
MenuLayer == 0
Layers == 0 .. MaxLayer
\* the layer a new FluxboxWindow is created in
NormalLayer == MaxLayer - 1
NoLock == [f \in Frames |-> FALSE]
\* the frame a new FluxboxWindow is given: FbWinFrame(..., 0, 0, 100, 100),
\* scaled to the model's screen
NewGeom == [x |-> 0, y |-> 0, width |-> 1, height |-> 1]
\* the outline of a resize: no resize has begun
NoResize == [x |-> 0, y |-> 0, w |-> 0, h |-> 0]
\* m_old_pos_x, m_old_pos_y, m_old_width, m_old_height have no initializer:
\* <<>> stands for a member never written, <<v>> for the value v
NoOld == [pos_x |-> <<>>, pos_y |-> <<>>, width |-> <<>>, height |-> <<>>]
\* maximized: MAX_NONE is {}, MAX_HORZ {"horz"}, MAX_VERT {"vert"}, MAX_FULL both
MAX_FULL == {"horz", "vert"}
\* lines 384-398: the flags FluxboxWindow::init writes; decorations.iconify is
\* not among them and holds what the memory held
ctorDecorations(junk) ==
    [titlebar |-> TRUE, border |-> TRUE, handle |-> TRUE, iconify |-> junk,
     maximize |-> TRUE, menu |-> TRUE, tab |-> TRUE, enabled |-> TRUE,
     close |-> FALSE, sticky |-> TRUE, shade |-> TRUE]

\* lines 397-398
ctorFunctions ==
    [resize |-> TRUE, move |-> TRUE, iconify |-> TRUE, maximize |-> TRUE,
     close |-> FALSE]

NoButtons == [c \in Clients |-> "none"]
FocusFuel == NumClients + 1
\* operations in a run of the iconify / deiconify specification
MaxIconOps == 4
\* the right and bottom edge of the screen area maximize() fills
ScreenRight == 3
ScreenBottom == 3
\* operations in a run of SpecW
MaxWinOps == 3
\* operations in a run of SpecE
MaxEventOps == 2
\* operations in a run of SpecD
MaxDtorOps == 4

IndexOf(s, x) == IF Contains(s, x)
                 THEN CHOOSE i \in 1 .. Len(s) :
                        s[i] = x /\ \A j \in 1 .. (i - 1) : s[j] # x
                 ELSE 0

\* *m_labelbuttons[c]: operator[] adds a null entry for a missing key and the
\* null pointer is dereferenced
derefLabelButton(S, F, c, ub) ==
    IF S.m_labelbuttons[F][c] = "btn" THEN S
    ELSE LET N == [S EXCEPT !.m_labelbuttons[F][c] = "null"]
         IN  IF ub THEN N ELSE Fault(N, "null_labelbutton")

\* a request goes out to the display: k is its kind, id the client or Frame
emit(S, k, id) == [S EXCEPT !.xlog = Append(@, [k |-> k, id |-> id])]

\* WinClient::getFocusMode: the input model of ICCCM 4.1.7
getFocusMode(S, c) ==
    IF S.accepts_input[c]
    THEN IF S.send_focus_message[c] THEN "F_LOCALLYACTIVE" ELSE "F_PASSIVE"
    ELSE IF S.send_focus_message[c] THEN "F_GLOBALLYACTIVE" ELSE "F_NOINPUT"

\* lines 179-208 of WinClient.cc; ret is the value returned
sendFocus(S, c) ==
    IF S.accepts_input[c] THEN [emit(S, "focus", c) EXCEPT !.ret = TRUE]
    ELSE IF ~S.send_focus_message[c] THEN [S EXCEPT !.ret = FALSE]
    ELSE [emit(S, "takefocus", c) EXCEPT !.ret = TRUE]

\* lines 1105-1126: no modal redirect, the active client gets the focus
focusClient(S, mc) ==
    IF getFocusMode(S, mc) \in {"F_LOCALLYACTIVE", "F_PASSIVE"}
    THEN [sendFocus(emit(S, "focus", mc), mc) EXCEPT !.ret = TRUE]
    ELSE [S EXCEPT !.ret = FALSE]

\* setInputFocus without the redirect of lines 1098-1104
setInputFocusDirect(S, F, V, ub, fuel) ==
    IF S.fault # "none" THEN S
    ELSE IF S.m_client[F] = 0 THEN Fault(S, "null_m_client")
    ELSE IF S.m_client[F] \notin V THEN [S EXCEPT !.ret = FALSE]
    ELSE focusClient(S, S.m_client[F])

RECURSIVE setInputFocus(_, _, _, _, _)
RECURSIVE redirectFocus(_, _, _, _, _, _)
RECURSIVE setCurrentClient(_, _, _, _, _, _, _)

\* lines 1064-1129; fuel runs out only when the redirects never end
setInputFocus(S, F, V, ub, fuel) ==
    IF S.fault # "none" THEN S
    ELSE IF fuel = 0 THEN Fault(S, "focus_recursion")
    ELSE LET mc == S.m_client[F]
         IN  IF mc = 0 THEN Fault(S, "null_m_client")
             ELSE IF mc \notin V THEN [S EXCEPT !.ret = FALSE]
             ELSE IF S.transients[mc] # <<>> /\ isModal(S, mc)
             THEN redirectFocus(S, S.transients[mc], 1, V, ub, fuel)
             ELSE focusClient(S, mc)

\* lines 1099-1104: the first modal entry of the transient list takes the focus
redirectFocus(S, l, i, V, ub, fuel) ==
    IF i > Len(l) THEN [S EXCEPT !.ret = FALSE]
    ELSE LET t == l[i]
         IN  IF t \notin S.registered
             THEN IF ub THEN redirectFocus(S, l, i + 1, V, ub, fuel)
                  ELSE Fault(S, "dangling_transient")
             ELSE IF ~isModal(S, t) THEN redirectFocus(S, l, i + 1, V, ub, fuel)
             ELSE IF S.m_win[t] = 0 THEN Fault(S, "null_fbwindow")
             ELSE IF S.m_win[t] \notin S.frame_live
             THEN IF ub THEN [S EXCEPT !.ret = FALSE] ELSE Fault(S, "dangling_frame")
             ELSE setCurrentClient(S, S.m_win[t], t, TRUE, V, ub, fuel - 1)

\* setCurrentClient without the check of lines 819-820
setCurrentClientUnchecked(S, F, client, setinput, V, ub, fuel) ==
    IF S.fault # "none" THEN S
    ELSE LET S1 == derefLabelButton([S EXCEPT !.m_client[F] = client], F, client, ub)
         IN  IF setinput THEN setInputFocus(S1, F, V, ub, fuel) ELSE S1

\* lines 817-826
setCurrentClient(S, F, client, setinput, V, ub, fuel) ==
    IF S.fault # "none" THEN S
    ELSE IF S.m_win[client] # F THEN [S EXCEPT !.ret = FALSE]
    ELSE LET S1 == derefLabelButton([S EXCEPT !.m_client[F] = client,
                                              !.ret = FALSE], F, client, ub)
         IN  IF setinput THEN setInputFocus(S1, F, V, ub, fuel) ELSE S1

\* lines 778-796
nextClient(S, F, V, ub) ==
    LET l == S.m_clientlist[F]
        i == IndexOf(l, S.m_client[F])
    IN  IF S.fault # "none" \/ Len(l) <= 1 THEN S
        ELSE IF i = 0 THEN [S EXCEPT !.m_client[F] = l[1]]
        ELSE LET n == IF i = Len(l) THEN l[1] ELSE l[i + 1]
                 S1 == derefLabelButton([S EXCEPT !.m_client[F] = n], F, n, ub)
             IN  setInputFocus(S1, F, V, ub, FocusFuel)

\* lines 798-815
prevClient(S, F, V, ub) ==
    LET l == S.m_clientlist[F]
        i == IndexOf(l, S.m_client[F])
    IN  IF S.fault # "none" \/ Len(l) <= 1 THEN S
        ELSE IF i = 0 THEN [S EXCEPT !.m_client[F] = l[1]]
        ELSE LET n == IF i = 1 THEN l[Len(l)] ELSE l[i - 1]
                 S1 == derefLabelButton([S EXCEPT !.m_client[F] = n], F, n, ub)
             IN  setInputFocus(S1, F, V, ub, FocusFuel)

\* lines 725-732: the active client is about to go, another one takes over
moveOn(S, F, client, V, ub) ==
    LET l == S.m_clientlist[F]
    IN  IF S.m_client[F] # client THEN S
        ELSE IF client = l[Len(l)] THEN prevClient(S, F, V, ub)
        ELSE nextClient(S, F, V, ub)

\* lines 734-756
dropClient(S, F, client) ==
    LET l2 == SeqRemove(S.m_clientlist[F], client)
    IN  IF S.fault # "none" THEN S
        ELSE [S EXCEPT !.m_win[client] = 0,
                       !.m_clientlist[F] = l2,
                       !.m_client[F] = IF @ # client THEN @
                                       ELSE IF l2 = <<>> THEN 0 ELSE l2[Len(l2)],
                       !.m_labelbuttons[F][client] = "none"]

\* lines 716-763
removeClient(S, F, client, V, ub) ==
    IF S.fault # "none" THEN S
    ELSE IF S.m_win[client] # F \/ Len(S.m_clientlist[F]) = 0 THEN S
    ELSE dropClient(moveOn(S, F, client, V, ub), F, client)

\* lines 701-705: m_client->raise(); setInputFocus(); return true
raiseAndFocus(S, F, V, ub) ==
    IF S.fault # "none" THEN S
    ELSE IF S.m_client[F] = 0 THEN Fault(S, "null_m_client")
    ELSE [setInputFocus(S, F, V, ub, FocusFuel) EXCEPT !.ret = TRUE]

\* lines 667-705: the body of detachClient past its guard
detachBody(S, F, client, V, ub) ==
    LET l == S.m_clientlist[F]
        i == IndexOf(l, client)
        \* the window to the left of the client, None for the front one
        leftwin == IF i <= 1 THEN None ELSE l[i - 1]
    IN  IF i = 0 THEN Fault(S, "detach_not_in_list")
        ELSE raiseAndFocus(
                 removeClient(IF i < Len(l)
                              THEN [S EXCEPT !.group_left[l[i + 1]] = leftwin]
                              ELSE S, F, client, V, ub),
                 F, V, ub)

\* detachClient with the numClients() <= 1 half of the guard dropped
detachClientAnyCount(S, F, client, V, ub) ==
    IF S.fault # "none" THEN S
    ELSE IF S.m_win[client] # F THEN [S EXCEPT !.ret = FALSE]
    ELSE detachBody(S, F, client, V, ub)

\* lines 655-706; ret is the value returned
detachClient(S, F, client, V, ub) ==
    IF S.fault # "none" THEN S
    ELSE IF S.m_win[client] # F \/ Len(S.m_clientlist[F]) <= 1
    THEN [S EXCEPT !.ret = FALSE]
    ELSE detachBody(S, F, client, V, ub)

\* lines 708-713
detachCurrentClient(S, F, V, ub) ==
    IF Len(S.m_clientlist[F]) <= 1 THEN [S EXCEPT !.ret = FALSE]
    ELSE IF S.m_client[F] = 0 THEN Fault(S, "null_m_client")
    ELSE detachClient(S, F, S.m_client[F], V, ub)

\* line 145: accepts_input = send_focus_message = false
noInput(S, this) ==
    [S EXCEPT !.accepts_input[this] = FALSE, !.send_focus_message[this] = FALSE]

\* lines 146-147: if (fbwindow() != 0) fbwindow()->removeClient(*this)
leaveFrame(S, this, V, ub) ==
    LET F == S.m_win[this]
    IN  IF S.fault # "none" \/ F = 0 THEN S
        ELSE IF F \in S.frame_live THEN removeClient(S, F, this, V, ub)
        ELSE IF ub THEN S
        ELSE Fault(S, "dangling_frame")

\* lines 120-170: WinClient::~WinClient
WinClientDtor(S, this, V, ub) ==
    dtorRegistry(leaveFrame(noInput(dtorTransients(S, this, ub), this), this, V, ub),
                 this)

\* lines 287-289: delete m_client; m_client = 0
deleteActive(S, F, V, ub) ==
    IF S.m_client[F] = 0 THEN S
    ELSE [WinClientDtor(S, S.m_client[F], V, ub) EXCEPT !.m_client[F] = 0]

\* lines 291-296: while (!m_clientlist.empty()) detachClient(*m_clientlist.back())
\* a detach that is refused leaves the list as it is and the loop never ends
drainClients(S, F, V, ub) ==
    LET l == S.m_clientlist[F]
    IN  IF S.fault # "none" \/ Len(l) <= 1 THEN S
        ELSE Fault(detachClient(S, F, l[Len(l)], V, ub), "destructor_loop")

\* the object is gone
freeFrame(S, F) ==
    IF S.fault # "none" THEN S
    ELSE [S EXCEPT !.frame_live = @ \ {F},
                   !.m_clientlist[F] = <<>>,
                   !.iconic[F] = FALSE,
                   !.m_layernum[F] = NormalLayer,
                   !.layer_item[F] = NormalLayer,
                   !.oplock[F] = FALSE,
                   !.m_current_state[F] = "Normal",
                   !.wm_state[F] = "Normal",
                   !.shaded[F] = FALSE,
                   !.stuck[F] = FALSE,
                   !.maximized[F] = {},
                   !.frame_geom[F] = NewGeom,
                   !.m_old[F] = NoOld,
                   !.m_attaching_tab[F] = 0,
                   !.resizing[F] = FALSE,
                   !.m_last_resize[F] = NoResize,
                   !.m_button_grab[F] = [x |-> 0, y |-> 0],
                   !.decorations[F] = ctorDecorations(TRUE),
                   !.functions[F] = ctorFunctions,
                   !.m_old_decoration[F] = "DECOR_NORMAL",
                   !.m_labelbuttons[F] = NoButtons]

\* lines 256-301: FluxboxWindow::~FluxboxWindow
FluxboxWindowDtor(S, F, V, ub) ==
    IF S.fault # "none" THEN S
    ELSE freeFrame(
             drainClients(
                 deleteActive([S EXCEPT !.m_labelbuttons[F] = NoButtons], F, V, ub),
                 F, V, ub),
             F)

\* the loop of lines 571-604 left out: no client is handed over
migrateNothing(S, F, l, i) == S

\* the loop of lines 571-604 making the first migrated client the active one
migrateAndActivate(S, F, l, i) ==
    IF l = <<>> THEN S
    ELSE [S EXCEPT !.m_win = [c \in Clients |-> IF Contains(l, c) THEN F ELSE @[c]],
                   !.m_labelbuttons[F] =
                       [c \in Clients |-> IF Contains(l, c) THEN "btn" ELSE @[c]],
                   !.m_client[F] = l[1]]

RECURSIVE migrate(_, _, _, _)
\* lines 569-604: every client of the old Frame gets this Frame and a button
migrate(S, F, l, i) ==
    IF i > Len(l) THEN S
    ELSE migrate([S EXCEPT !.m_win[l[i]] = F,
                           !.m_labelbuttons[F][l[i]] = "btn"], F, l, i + 1)

\* lines 609-610: m_clientlist.splice(...); old_win->m_client = 0
splice(S, F, old_win) ==
    [S EXCEPT !.m_clientlist[F] = @ \o S.m_clientlist[old_win],
              !.m_clientlist[old_win] = <<>>,
              !.m_client[old_win] = 0]

\* lines 614-638: a client without a FluxboxWindow
adoptClient(S, F, client) ==
    [S EXCEPT !.m_labelbuttons[F][client] = "btn",
              !.m_win[client] = F,
              !.m_clientlist[F] = Append(@, client)]

\* lines 558-562
setLeftOfNewcomer(S, F, client) ==
    LET l == S.m_clientlist[F]
    IN  [S EXCEPT !.group_left[client] = IF l # <<>> THEN l[Len(l)] ELSE None]

\* lines 564-638.  A client whose FluxboxWindow was destroyed carries a
\* dangling m_win: the loop runs over freed memory (ub: it reads as empty)
attachFrom(S, F, client, V, ub) ==
    LET old_win == S.m_win[client]
    IN  IF old_win = 0 THEN adoptClient(S, F, client)
        ELSE IF old_win \in S.frame_live
        THEN FluxboxWindowDtor(
                 splice(migrate(S, F, S.m_clientlist[old_win], 1), F, old_win),
                 old_win, V, ub)
        ELSE IF ub THEN S
        ELSE Fault(S, "dangling_frame")

\* line 650: m_client->raise()
raiseActive(S, F) ==
    IF S.fault # "none" THEN S
    ELSE IF S.m_client[F] = 0 THEN Fault(S, "null_m_client")
    ELSE S

\* lines 548-651
attachClient(S, F, client, V, ub) ==
    IF S.fault # "none" THEN S
    ELSE IF S.m_win[client] = F THEN S
    ELSE raiseActive(attachFrom(setLeftOfNewcomer(S, F, client), F, client, V, ub), F)

\* the fbwindow() of an entry t of a transient list, as a loop over the list
\* reads it: the Frame, 0 for none, or Died when the process stops on the
\* read.  An entry whose client or Frame is deleted is a dangling pointer.
Died == 0 - 1
transientFrame(S, t, ub) ==
    IF t \notin S.registered THEN (IF ub THEN 0 ELSE Died)
    ELSE IF S.m_win[t] = 0 THEN 0
    ELSE IF S.m_win[t] \notin S.frame_live THEN (IF ub THEN 0 ELSE Died)
    ELSE S.m_win[t]

\* lines 131-137: the client at the top of the transient chain, or 0 when the
\* walk does not end
RECURSIVE getRootTransientFor(_, _, _)
getRootTransientFor(S, client, fuel) ==
    IF S.transient_for[client] = 0 THEN client
    ELSE IF fuel = 0 \/ S.transient_for[client] = client THEN 0
    ELSE getRootTransientFor(S, S.transient_for[client], fuel - 1)

\* lines 141-160: raise the Frame, then the Frames of the transients of its
\* active client; oplock ends the recursion
RECURSIVE raiseFluxboxWindow(_, _, _)
RECURSIVE raiseTransients(_, _, _, _)
raiseStep(S, f, l, i, ub) ==
    IF f = Died THEN Fault(S, "dangling_transient")
    ELSE IF f # 0 /\ ~S.iconic[f]
    THEN raiseTransients(raiseFluxboxWindow(S, f, ub), l, i + 1, ub)
    ELSE raiseTransients(S, l, i + 1, ub)

raiseTransients(S, l, i, ub) ==
    IF S.fault # "none" \/ i > Len(l) THEN S
    ELSE raiseStep(S, transientFrame(S, l[i], ub), l, i, ub)

\* the flag is never released
unlockSkipped(S, win) == S

\* win.oplock = false
unlock(S, win) == IF S.fault # "none" THEN S ELSE [S EXCEPT !.oplock[win] = FALSE]

raiseFluxboxWindow(S, win, ub) ==
    IF S.fault # "none" \/ S.oplock[win] THEN S
    ELSE IF S.m_client[win] = 0 THEN Fault(S, "null_m_client")
    ELSE unlock(raiseTransients(
                    IF S.iconic[win] THEN [S EXCEPT !.oplock[win] = TRUE]
                    ELSE emit([S EXCEPT !.oplock[win] = TRUE], "raise", win),
                    S.transients[S.m_client[win]], 1, ub), win)

\* the Frames a loop of iconify or deiconify visits for the clients of l, in
\* order; parents says whether the Frame of the transient parent is visited
RECURSIVE framesOfList(_, _, _, _)
framesOfList(S, l, i, ub) ==
    IF i > Len(l) THEN <<>>
    ELSE <<transientFrame(S, l[i], ub)>> \o framesOfList(S, l, i + 1, ub)

RECURSIVE familyFrames(_, _, _, _, _)
familyFrames(S, l, i, parents, ub) ==
    IF i > Len(l) THEN <<>>
    ELSE (IF parents /\ S.transient_for[l[i]] # 0
          THEN <<transientFrame(S, S.transient_for[l[i]], ub)>> ELSE <<>>)
         \o framesOfList(S, S.transients[l[i]], 1, ub)
         \o familyFrames(S, l, i + 1, parents, ub)

\* lines 1630-1647: FluxboxWindow::setState
setState(S, F, new_state) ==
    IF S.m_clientlist[F] = <<>> THEN S
    ELSE [S EXCEPT !.m_current_state[F] = new_state, !.wm_state[F] = new_state]

\* iconify that leaves the other Frames alone
iconifyAlone(S, F, ub) ==
    IF S.fault # "none" \/ S.iconic[F] THEN S
    ELSE emit(setState([S EXCEPT !.iconic[F] = TRUE], F, "Iconic"), "hide", F)

\* lines 1146-1182; the transient graph and the tab lists do not change
\* during the call, so the Frames the loops visit are known at its start
RECURSIVE iconify(_, _, _)
RECURSIVE iconifyEach(_, _, _, _)
iconifyEach(S, fs, i, ub) ==
    IF S.fault # "none" \/ i > Len(fs) THEN S
    ELSE IF fs[i] = Died THEN Fault(S, "dangling_transient")
    ELSE IF fs[i] = 0 THEN iconifyEach(S, fs, i + 1, ub)
    ELSE iconifyEach(iconify(S, fs[i], ub), fs, i + 1, ub)

iconify(S, F, ub) ==
    IF S.fault # "none" \/ S.iconic[F] THEN S
    ELSE iconifyEach(emit(setState([S EXCEPT !.iconic[F] = TRUE], F, "Iconic"),
                          "hide", F),
                     familyFrames(S, S.m_clientlist[F], 1, TRUE, ub), 1, ub)

\* what validateClient answers during one operation: at most one client has a
\* destroy or unmap event pending
ValidSets == {Clients} \cup {Clients \ {c} : c \in Clients}

\* what one call of deiconify or raise finds around it: the clients that
\* validateClient accepts, the outcome of undefined behaviour, the focus-new
\* resource of the screen, and whether the Frame is on the current workspace
\* and not being moved
Envs == [V : ValidSets, ub : BOOLEAN, focusnew : BOOLEAN, here : BOOLEAN]

\* raise, lower and tempRaise call deiconify with reassociation, which does
\* not look at the workspace
StackEnvs == {e \in Envs : e.here}

\* lines 1184-1238 and 1406-1420
RECURSIVE deiconify(_, _, _, _, _)
RECURSIVE deiconifyEach(_, _, _, _)
RECURSIVE raise(_, _, _)

deiconifyEach(S, fs, i, env) ==
    IF S.fault # "none" \/ i > Len(fs) THEN S
    ELSE IF fs[i] = Died THEN Fault(S, "dangling_transient")
    ELSE IF fs[i] = 0 THEN deiconifyEach(S, fs, i + 1, env)
    ELSE deiconifyEach(deiconify(S, fs[i], TRUE, FALSE, env), fs, i + 1, env)

\* lines 1220-1234: the transients of every client, when the active client has
\* transients
deiconifyTransients(S, F, reassoc, env) ==
    IF S.fault # "none" THEN S
    ELSE IF S.m_client[F] = 0 THEN Fault(S, "null_m_client")
    ELSE IF reassoc /\ S.transients[S.m_client[F]] # <<>>
    THEN deiconifyEach(S, familyFrames(S, S.m_clientlist[F], 1, FALSE, env.ub), 1, env)
    ELSE S

\* lines 1213-1214
focusNew(S, F, was_iconic, env) ==
    IF was_iconic /\ env.focusnew
    THEN setInputFocus(S, F, env.V, env.ub, FocusFuel)
    ELSE S

raiseAfter(S, F, do_raise, env) ==
    IF do_raise THEN raise(S, F, env) ELSE S

deiconify(S, F, reassoc, do_raise, env) ==
    IF S.fault # "none" THEN S
    ELSE IF S.m_clientlist[F] = <<>> \/ S.oplock[F] THEN S
    ELSE IF ~(S.iconic[F] \/ reassoc) /\ ~env.here
    THEN unlock([S EXCEPT !.oplock[F] = TRUE], F)
    ELSE raiseAfter(
           unlock(deiconifyTransients(
                    focusNew(emit(setState([S EXCEPT !.oplock[F] = TRUE,
                                                     !.iconic[F] = FALSE],
                                           F, "Normal"),
                                  "show", F),
                             F, S.iconic[F], env),
                    F, reassoc, env), F),
           F, do_raise, env)

\* lines 1414-1419
raiseRoot(S, root, ub) ==
    IF S.fault # "none" THEN S
    ELSE IF root = 0 THEN Fault(S, "transient_loop")
    ELSE IF S.m_win[root] = 0 THEN S
    ELSE raiseFluxboxWindow(S, S.m_win[root], ub)

chainRoot(S, F) ==
    IF S.m_client[F] = 0 THEN 0
    ELSE getRootTransientFor(S, S.m_client[F], NumClients)

\* deiconify() is deiconify(true, true)
raiseFrom(S, F, ub) ==
    IF S.fault # "none" THEN S
    ELSE IF S.m_client[F] = 0 THEN Fault(S, "null_m_client")
    ELSE raiseRoot(S, chainRoot(S, F), ub)

raise(S, F, env) ==
    IF S.fault # "none" THEN S
    ELSE IF S.iconic[F] THEN raiseFrom(deiconify(S, F, TRUE, TRUE, env), F, env.ub)
    ELSE raiseFrom(S, F, env.ub)

\* lines 162-201: lowerFluxboxWindow and tempRaiseFluxboxWindow; kind is the
\* request sent for the layer item, "lower" or "tempraise"
RECURSIVE restackFluxboxWindow(_, _, _, _)
RECURSIVE restackTransients(_, _, _, _, _)
restackStep(S, f, l, i, kind, ub) ==
    IF f = Died THEN Fault(S, "dangling_transient")
    ELSE IF f # 0 /\ ~S.iconic[f]
    THEN restackTransients(restackFluxboxWindow(S, f, kind, ub), l, i + 1, kind, ub)
    ELSE restackTransients(S, l, i + 1, kind, ub)

restackTransients(S, l, i, kind, ub) ==
    IF S.fault # "none" \/ i > Len(l) THEN S
    ELSE restackStep(S, transientFrame(S, l[i], ub), l, i, kind, ub)

restackFluxboxWindow(S, win, kind, ub) ==
    IF S.fault # "none" \/ S.oplock[win] THEN S
    ELSE IF S.m_client[win] = 0 THEN Fault(S, "null_m_client")
    ELSE unlock(restackTransients(
                    IF S.iconic[win] THEN [S EXCEPT !.oplock[win] = TRUE]
                    ELSE emit([S EXCEPT !.oplock[win] = TRUE], kind, win),
                    S.transients[S.m_client[win]], 1, kind, ub), win)

\* lines 1428-1435 and 1444-1450
restackFrom(S, F, kind, ub) ==
    IF S.fault # "none" THEN S
    ELSE IF S.m_client[F] = 0 THEN Fault(S, "null_m_client")
    ELSE IF chainRoot(S, F) = 0 THEN Fault(S, "transient_loop")
    ELSE IF S.m_win[chainRoot(S, F)] = 0 THEN S
    ELSE restackFluxboxWindow(S, S.m_win[chainRoot(S, F)], kind, ub)

\* lines 1422-1451: FluxboxWindow::lower and FluxboxWindow::tempRaise
restack(S, F, kind, env) ==
    IF S.fault # "none" THEN S
    ELSE IF S.iconic[F]
    THEN restackFrom(deiconify(S, F, TRUE, TRUE, env), F, kind, env.ub)
    ELSE restackFrom(S, F, kind, env.ub)

\* lines 1030-1062: FluxboxWindow::moveResize on a resizable Frame; the frame
\* takes the geometry it is given (FbWinFrame::moveResize, FbWinFrame::move)
moveResize(S, F, new_x, new_y, new_width, new_height) ==
    LET g == S.frame_geom[F]
    IN  IF new_width # g.width \/ new_height # g.height
        THEN [S EXCEPT !.frame_geom[F] =
                          [x |-> IF g.width + new_x < 0 THEN 0 ELSE new_x,
                           y |-> IF g.height + new_y < 0 THEN 0 ELSE new_y,
                           width |-> new_width, height |-> new_height],
                       !.shaded[F] = FALSE]
        ELSE [S EXCEPT !.frame_geom[F] = [g EXCEPT !.x = new_x, !.y = new_y]]

\* the value read from a saved member: a member never written holds whatever
\* the memory held, junk
oldVal(o, junk) == IF o = <<>> THEN junk ELSE o[1]

\* lines 1271-1289: the screen area runs from (0, 0) to (ScreenRight,
\* ScreenBottom), the frame window has no border
maximizeBody(S, F, junk) ==
    LET g == S.frame_geom[F]
        o == S.m_old[F]
    IN  IF S.fault # "none" THEN S
        ELSE IF S.maximized[F] = {}
        THEN [moveResize([S EXCEPT !.m_old[F] =
                                      [pos_x |-> <<g.x>>, pos_y |-> <<g.y>>,
                                       width |-> <<g.width>>, height |-> <<g.height>>]],
                         F, 0, 0, ScreenRight, ScreenBottom)
                EXCEPT !.maximized[F] = MAX_FULL]
        ELSE [moveResize(S, F, oldVal(o.pos_x, junk), oldVal(o.pos_y, junk),
                         oldVal(o.width, junk), oldVal(o.height, junk))
                EXCEPT !.maximized[F] = {}]

\* lines 1267-1291: FluxboxWindow::maximize
maximize(S, F, env, junk) ==
    IF S.fault # "none" THEN S
    ELSE IF S.iconic[F] THEN maximizeBody(deiconify(S, F, TRUE, TRUE, env), F, junk)
    ELSE maximizeBody(S, F, junk)

\* lines 1295-1308: FluxboxWindow::maximizeHorizontal
maximizeHorizontal(S, F, junk) ==
    LET g == S.frame_geom[F]
        o == S.m_old[F]
    IN  IF "horz" \notin S.maximized[F]
        THEN [moveResize([S EXCEPT !.m_old[F].width = <<g.width>>,
                                   !.m_old[F].pos_x = <<g.x>>],
                         F, 0, g.y, ScreenRight, g.height)
                EXCEPT !.maximized[F] = @ \cup {"horz"}]
        ELSE [moveResize(S, F, oldVal(o.pos_x, junk), g.y,
                         oldVal(o.width, junk), g.height)
                EXCEPT !.maximized[F] = @ \ {"horz"}]

\* lines 1313-1325: FluxboxWindow::maximizeVertical
maximizeVertical(S, F, junk) ==
    LET g == S.frame_geom[F]
        o == S.m_old[F]
    IN  IF "vert" \notin S.maximized[F]
        THEN [moveResize([S EXCEPT !.m_old[F].height = <<g.height>>,
                                   !.m_old[F].pos_y = <<g.y>>],
                         F, g.x, 0, g.width, ScreenBottom)
                EXCEPT !.maximized[F] = @ \cup {"vert"}]
        ELSE [moveResize(S, F, g.x, oldVal(o.pos_y, junk),
                         g.width, oldVal(o.height, junk))
                EXCEPT !.maximized[F] = @ \ {"vert"}]

\* lines 1359-1380: FluxboxWindow::shade; titlebar is decorations.titlebar
shade(S, F, titlebar) ==
    IF ~titlebar THEN S
    ELSE IF S.shaded[F] THEN setState([S EXCEPT !.shaded[F] = FALSE], F, "Normal")
    ELSE setState([S EXCEPT !.shaded[F] = TRUE], F, "Iconic")

\* lines 1383-1403: FluxboxWindow::stick
stick(S, F) ==
    setState([S EXCEPT !.stuck[F] = ~S.stuck[F]], F, S.m_current_state[F])

\* lines 1252-1261: FluxboxWindow::withdraw
withdraw(S, F) == emit([S EXCEPT !.iconic[F] = FALSE], "hide", F)

\* a lookup that finds every window
findClientAny(S, F, win) == win

\* lines 766-775: FluxboxWindow::findClient; a client is named by its window
findClient(S, F, win) == IF Contains(S.m_clientlist[F], win) THEN win ELSE 0

\* lines 1971-1979: the state a map request asks for.  inp.got is what
\* getState read from WM_STATE ("none": no property, m_current_state is 0,
\* which is WithdrawnState), inp.startup is Fluxbox::isStartup(), inp.initial
\* the initial_state of WM_HINTS ("none": no StateHint)
requestedState(S, F, inp) ==
    LET read == IF inp.got = "none" THEN "Withdrawn" ELSE inp.got
    IN  IF ~(inp.got # "none" /\ inp.startup)
        THEN IF inp.initial # "none" /\ read \notin {"Normal", "Iconic"}
             THEN inp.initial ELSE "Normal"
        ELSE IF S.iconic[F] THEN "Normal" ELSE read

\* lines 1981-2014: the switch; the Frame is not grouped with another one
mapRequestSwitch(S, F, env) ==
    IF S.m_current_state[F] = "Iconic" THEN iconify(S, F, env.ub)
    ELSE IF S.m_current_state[F] = "Withdrawn" THEN withdraw(S, F)
    ELSE deiconify(S, F, FALSE, TRUE, env)

\* lines 1958-2016: FluxboxWindow::mapRequestEvent
mapRequestEvent(S, F, win, inp, env) ==
    IF findClient(S, F, win) = 0 THEN S
    ELSE IF S.m_client[F] = 0 THEN Fault(S, "null_m_client")
    ELSE mapRequestSwitch([S EXCEPT !.m_current_state[F] = requestedState(S, F, inp)],
                          F, env)

\* lines 2028-2035
mapNotifyFocus(S, F, client, env) ==
    IF S.transient_for[client] # 0 \/ env.focusnew
    THEN setInputFocus(S, F, env.V, env.ub, FocusFuel)
    ELSE S

\* lines 2018-2047: FluxboxWindow::mapNotifyEvent; shown says that the event
\* is not for an override-redirect window and the frame is visible
mapNotifyEvent(S, F, win, shown, env) ==
    IF findClient(S, F, win) = 0 \/ ~shown THEN S
    ELSE IF S.m_client[F] = 0 THEN Fault(S, "null_m_client")
    ELSE IF S.m_client[F] \notin env.V THEN S
    ELSE LET R == mapNotifyFocus(setState(S, F, "Normal"), F, win, env)
         IN  IF R.fault # "none" THEN R ELSE [R EXCEPT !.iconic[F] = FALSE]

\* lines 2987-3026: FluxboxWindow::restore(client, remap)
restore(S, F, client, env) ==
    IF S.m_win[client] # F THEN S
    ELSE LET R == WinClientDtor(emit(S, "unmap", client), client, env.V, env.ub)
         IN  IF R.fault = "none" /\ R.m_clientlist[F] = <<>>
             THEN emit(R, "hide", F) ELSE R

\* lines 2055-2067: FluxboxWindow::unmapNotifyEvent
unmapNotifyEvent(S, F, win, env) ==
    IF findClient(S, F, win) = 0 THEN S
    ELSE restore(S, F, win, env)

\* lines 2226-2239: the stacking part of a configure request
configureStack(S, F, stack, env) ==
    IF stack = "above" THEN raise(S, F, env)
    ELSE IF stack = "below" THEN restack(S, F, "lower", env)
    ELSE S

\* lines 2213-2224: the frame takes the size asked for (FbWinFrame::
\* resizeForClient), then the position
configureGeometry(S, F, req) ==
    LET R == [S EXCEPT !.frame_geom[F].width = req.width,
                       !.frame_geom[F].height = req.height]
    IN  IF R.frame_geom[F].x # req.x \/ R.frame_geom[F].y # req.y
        THEN moveResize(R, F, req.x, req.y, req.width, req.height)
        ELSE R

\* lines 2185-2242: FluxboxWindow::configureRequestEvent; req holds the
\* geometry the request resolves to and its stacking mode
configureRequestEvent(S, F, win, req, env) ==
    IF findClient(S, F, win) = 0 THEN S
    ELSE configureStack(configureGeometry(S, F, req), F, req.stack, env)

\* XLayerItem::moveToLayer, raiseLayer, lowerLayer: the layer the item is in
\* afterwards
layerInRange(n) == IF n < 0 THEN 0 ELSE IF n > MaxLayer THEN MaxLayer ELSE n
oneLayerUp(n) == IF n > 0 THEN n - 1 ELSE n
oneLayerDown(n) == IF n < MaxLayer THEN n + 1 ELSE n

\* lines 1476-1486, 1508-1517, 1546-1556: the Frames of the transients of the
\* root follow it to its layer
RECURSIVE layerTransients(_, _, _, _, _)
layerStep(S, f, l, i, n, ub) ==
    IF f = Died THEN Fault(S, "dangling_transient")
    ELSE IF f # 0 /\ ~S.iconic[f]
    THEN layerTransients([S EXCEPT !.layer_item[f] = layerInRange(n),
                                   !.m_layernum[f] = n], l, i + 1, n, ub)
    ELSE layerTransients(S, l, i + 1, n, ub)

layerTransients(S, l, i, n, ub) ==
    IF S.fault # "none" \/ i > Len(l) THEN S
    ELSE layerStep(S, transientFrame(S, l[i], ub), l, i, n, ub)

\* the root's Frame win goes to layer n, m_layernum remembers where it is
layerRoot(S, root, win, n, ub) ==
    layerTransients([S EXCEPT !.layer_item[win] = n, !.m_layernum[win] = n],
                    S.transients[root], 1, n, ub)

withRootFrame(S, root, n, ub) ==
    IF root = 0 THEN Fault(S, "transient_loop")
    ELSE IF S.m_win[root] = 0 THEN S
    ELSE layerRoot(S, root, S.m_win[root], n, ub)

\* lines 1521-1557
moveToLayer(S, F, layernum, ub) ==
    IF S.fault # "none" THEN S
    ELSE IF S.m_client[F] = 0 THEN Fault(S, "null_m_client")
    ELSE withRootFrame(S, chainRoot(S, F),
                       layerInRange(IF layernum <= MenuLayer THEN MenuLayer + 1
                                    ELSE layernum), ub)

rootLayer(S, root) == IF root = 0 \/ S.m_win[root] = 0 THEN 0
                      ELSE S.layer_item[S.m_win[root]]

\* lines 1453-1487
raiseLayer(S, F, ub) ==
    IF S.fault # "none" THEN S
    ELSE IF S.m_layernum[F] = MenuLayer + 1 THEN S
    ELSE IF S.m_client[F] = 0 THEN Fault(S, "null_m_client")
    ELSE withRootFrame(S, chainRoot(S, F), oneLayerUp(rootLayer(S, chainRoot(S, F))), ub)

\* lines 1489-1518
lowerLayer(S, F, ub) ==
    IF S.fault # "none" THEN S
    ELSE IF S.m_client[F] = 0 THEN Fault(S, "null_m_client")
    ELSE withRootFrame(S, chainRoot(S, F), oneLayerDown(rootLayer(S, chainRoot(S, F))), ub)

\* lines 491-497: a new Frame goes to the layer of its transient parent, or
\* to its default layer
initLayer(S, F, client, ub) ==
    IF S.fault # "none" THEN S
    ELSE IF S.transient_for[client] # 0 /\ S.m_win[S.transient_for[client]] # 0
            /\ S.m_win[S.transient_for[client]] # F
    THEN [S EXCEPT !.layer_item[F] = S.layer_item[S.m_win[S.transient_for[client]]]]
    ELSE moveToLayer(S, F, S.m_layernum[F], ub)

\* the Frame slot for a new FluxboxWindow
FreeFrames(S) == {f \in Frames : f \notin S.frame_live
                                 /\ \A c \in Clients : S.m_win[c] # f}

\* lines 222-253 and 304-528: FluxboxWindow::FluxboxWindow and init();
\* managed is FALSE when init returns before updateTransientInfo
FluxboxWindowCtor(S, F, client, managed, ub) ==
    LET S1 == [S EXCEPT !.frame_live = @ \cup {F},
                        !.m_client[F] = client,
                        !.m_win[client] = F,
                        !.group_left[client] = None,
                        !.m_clientlist[F] = <<client>>,
                        !.iconic[F] = FALSE,
                        !.m_layernum[F] = NormalLayer,
                        !.layer_item[F] = NormalLayer,
                        !.oplock[F] = FALSE,
                        !.m_current_state[F] = "Normal",
                        !.wm_state[F] = "Normal",
                        !.shaded[F] = FALSE,
                        !.stuck[F] = FALSE,
                        !.maximized[F] = {},
                        !.frame_geom[F] = NewGeom,
                        !.m_old[F] = NoOld,
                        !.m_labelbuttons[F] = [NoButtons EXCEPT ![client] = "btn"]]
    IN  IF managed THEN initLayer(updateTransientInfo(S1, client), F, client, ub)
        ELSE S1

\* lines 2092-2100: every client of the Frame resolves its transient hint again
RECURSIVE updateAllTransientInfo(_, _, _)
updateAllTransientInfo(S, l, i) ==
    IF i > Len(l) THEN S
    ELSE updateAllTransientInfo(updateTransientInfo(S, l[i]), l, i + 1)

-----------------------------------------------------------------------------
(***************************************************************************)
(* Hint snapshots as updateWMNormalHints leaves them: increments are never *)
(* 0, a maximum of 0 means unbounded, minimum and base are independent     *)
(* when the client sets both PMinSize and PBaseSize.  The aspect pairs are *)
(* ratios whose double arithmetic is exact on the model's sizes.           *)
(***************************************************************************)
MinVals == {1, 3}
MaxVals == {0, 4}
BaseVals == {0, 3}
IncVals == {1, 2}
AspectVals == { <<0, 0, 0, 0>>, <<1, 1, 1, 1>>, <<1, 2, 2, 1>>, <<3, 2, 3, 2>> }
DimVals == (0 - 1) .. MaxDim

SizeHintSets ==
    { [min_width |-> mw, min_height |-> mh, max_width |-> xw, max_height |-> xh,
       width_inc |-> iw, height_inc |-> ih, base_width |-> bw, base_height |-> bh,
       min_aspect_x |-> asp[1], min_aspect_y |-> asp[2],
       max_aspect_x |-> asp[3], max_aspect_y |-> asp[4]] :
        mw \in MinVals, mh \in MinVals, xw \in MaxVals, xh \in MaxVals,
        iw \in IncVals, ih \in IncVals, bw \in BaseVals, bh \in BaseVals,
        asp \in AspectVals }

\* the snapshot WinClient::WinClient starts from
DefaultSizeHints ==
    [min_width |-> 1, min_height |-> 1, max_width |-> 0, max_height |-> 0,
     width_inc |-> 1, height_inc |-> 1, base_width |-> 1, base_height |-> 1,
     min_aspect_x |-> 0, min_aspect_y |-> 0, max_aspect_x |-> 0, max_aspect_y |-> 0]

\* no size negotiation in progress
IdleSH ==
    /\ m_size_hints = DefaultSizeHints
    /\ arg_width = 0
    /\ arg_height = 0
    /\ arg_maximizing = FALSE
    /\ ub_cast = IntMin
    /\ res1 = NoRes
    /\ res2 = NoRes
    /\ sh_pc = "start"

\* every Frame mapped and in the Normal state, with the geometry geoms gives it
\* the contents of WM_HINTS (its input field), WM_NAME and WM_NORMAL_HINTS:
\* "none" has not both PMinSize and PMaxSize, "fixed" has both with a
\* maximum that is not 0 and not above the minimum, "free" both otherwise
Titles == {"t0", "t1"}
NormalHints == {"none", "free", "fixed"}
NoProps == [WM_HINTS |-> "absent", WM_NAME |-> "t0", WM_NORMAL_HINTS |-> "none"]

\* the Frames of windows without hints of their own
PlainDecor ==
    /\ decorations = [f \in Frames |-> ctorDecorations(TRUE)]
    /\ functions = [f \in Frames |-> ctorFunctions]
    /\ m_old_decoration = [f \in Frames |-> "DECOR_NORMAL"]
    /\ x_property = [c \in Clients |-> NoProps]
    /\ hint_snapshot = [c \in Clients |-> NoProps]
    /\ decor0 = [f \in Frames |-> [decorations |-> ctorDecorations(TRUE),
                                    functions |-> ctorFunctions]]

\* the geometry and the state of the Frames at start-up
FramesAt(geoms) ==
    /\ m_current_state = [f \in Frames |-> "Normal"]
    /\ wm_state = [f \in Frames |-> "Normal"]
    /\ shaded = [f \in Frames |-> FALSE]
    /\ stuck = [f \in Frames |-> FALSE]
    /\ maximized = [f \in Frames |-> {}]
    /\ frame_geom = geoms
    /\ m_old = [f \in Frames |-> NoOld]
    /\ m_attaching_tab = [f \in Frames |-> 0]
    /\ resizing = [f \in Frames |-> FALSE]
    /\ m_last_resize = [f \in Frames |-> NoResize]
    /\ m_button_grab = [f \in Frames |-> [x |-> 0, y |-> 0]]
    /\ geom0 = geoms

WindowsAt(geoms) == FramesAt(geoms) /\ PlainDecor

PlainWindows == WindowsAt([f \in Frames |-> NewGeom])

NoLast == [op |-> "init", c |-> 0, f |-> 0, s |-> {}, n |-> 0]

\* the window manager has started: no client, no Frame
InitG ==
    /\ registered = {}
    /\ wm_transient_for = [c \in Clients |-> NoHint]
    /\ transient_for = [c \in Clients |-> 0]
    /\ transients = [c \in Clients |-> <<>>]
    /\ m_modal = [c \in Clients |-> FALSE]
    /\ m_modal_count = [c \in Clients |-> 0]
    /\ s_transient_wait = [k \in WaitKeys |-> NoEntry]
    /\ frame_live = {}
    /\ m_clientlist = [f \in Frames |-> <<>>]
    /\ m_client = [f \in Frames |-> 0]
    /\ m_labelbuttons = [f \in Frames |-> NoButtons]
    /\ m_win = [c \in Clients |-> 0]
    /\ group_left = [c \in Clients |-> None]
    /\ accepts_input = [c \in Clients |-> FALSE]
    /\ send_focus_message = [c \in Clients |-> FALSE]
    /\ iconic = [f \in Frames |-> FALSE]
    /\ m_layernum = [f \in Frames |-> NormalLayer]
    /\ layer_item = [f \in Frames |-> NormalLayer]
    /\ oplock = NoLock
    /\ PlainWindows
    /\ xlog = <<>>
    /\ fault = "none"
    /\ last = NoLast
    /\ budget = MaxOps

InitSH ==
    /\ m_size_hints \in SizeHintSets
    /\ arg_width \in DimVals
    /\ arg_height \in DimVals
    /\ arg_maximizing \in BOOLEAN
    /\ ub_cast \in {IntMin, IntMax}
    /\ res1 = NoRes
    /\ res2 = NoRes
    /\ sh_pc = "start"
    /\ InitG

\* a caller applies the hints to a proposed size
ApplyOnce ==
    /\ sh_pc = "start"
    /\ res1' = applySizeHints(m_size_hints, arg_width, arg_height, arg_maximizing, ub_cast)
    /\ sh_pc' = "applied"
    /\ UNCHANGED <<m_size_hints, arg_width, arg_height, arg_maximizing, ub_cast, res2>>
    /\ UNCHANGED gvars

\* the caller applies the hints again to the size it got back
ApplyAgain ==
    /\ sh_pc = "applied"
    /\ res2' = applySizeHints(m_size_hints, res1.width, res1.height, arg_maximizing, ub_cast)
    /\ sh_pc' = "reapplied"
    /\ UNCHANGED <<m_size_hints, arg_width, arg_height, arg_maximizing, ub_cast, res1>>
    /\ UNCHANGED gvars

NextSH == ApplyOnce \/ ApplyAgain

SpecSH == InitSH /\ [][NextSH]_vars

-----------------------------------------------------------------------------
(***************************************************************************)
(* Operations on clients and Frames.  Each action is one call of the       *)
(* method it is named after, nested calls included.                        *)
(***************************************************************************)
Cur ==
    [registered |-> registered, wm_transient_for |-> wm_transient_for,
     transient_for |-> transient_for, transients |-> transients,
     m_modal |-> m_modal, m_modal_count |-> m_modal_count,
     s_transient_wait |-> s_transient_wait, frame_live |-> frame_live,
     m_clientlist |-> m_clientlist, m_client |-> m_client,
     m_labelbuttons |-> m_labelbuttons, m_win |-> m_win,
     group_left |-> group_left, accepts_input |-> accepts_input,
     send_focus_message |-> send_focus_message, iconic |-> iconic,
     m_layernum |-> m_layernum, layer_item |-> layer_item,
     xlog |-> <<>>, oplock |-> oplock,
     m_current_state |-> m_current_state, wm_state |-> wm_state,
     shaded |-> shaded, stuck |-> stuck, maximized |-> maximized,
     frame_geom |-> frame_geom, m_old |-> m_old,
     m_attaching_tab |-> m_attaching_tab,
     decorations |-> decorations, functions |-> functions,
     m_old_decoration |-> m_old_decoration, x_property |-> x_property,
     hint_snapshot |-> hint_snapshot, decor0 |-> decor0,
     resizing |-> resizing, m_last_resize |-> m_last_resize,
     m_button_grab |-> m_button_grab,
     m_size_hints |-> m_size_hints,
     fault |-> fault, ret |-> FALSE]

\* the lists and counters the code lets grow stay within the model's bounds
Bounded(S) ==
    \A c \in Clients :
        /\ Len(S.transients[c]) <= MaxTransients
        /\ S.m_modal_count[c] <= MaxModalCount
        /\ S.m_modal_count[c] >= 0 - MaxModalCount

Commit(S, l) ==
    /\ budget > 0
    /\ Bounded(S)
    /\ budget' = budget - 1
    /\ registered' = S.registered
    /\ wm_transient_for' = S.wm_transient_for
    /\ transient_for' = S.transient_for
    /\ transients' = S.transients
    /\ m_modal' = S.m_modal
    /\ m_modal_count' = S.m_modal_count
    /\ s_transient_wait' = S.s_transient_wait
    /\ frame_live' = S.frame_live
    /\ m_clientlist' = S.m_clientlist
    /\ m_client' = S.m_client
    /\ m_labelbuttons' = S.m_labelbuttons
    /\ m_win' = S.m_win
    /\ group_left' = S.group_left
    /\ accepts_input' = S.accepts_input
    /\ send_focus_message' = S.send_focus_message
    /\ iconic' = S.iconic
    /\ m_layernum' = S.m_layernum
    /\ layer_item' = S.layer_item
    /\ oplock' = S.oplock
    /\ m_current_state' = S.m_current_state
    /\ wm_state' = S.wm_state
    /\ shaded' = S.shaded
    /\ stuck' = S.stuck
    /\ maximized' = S.maximized
    /\ frame_geom' = S.frame_geom
    /\ m_old' = S.m_old
    /\ m_attaching_tab' = S.m_attaching_tab
    /\ decorations' = S.decorations
    /\ functions' = S.functions
    /\ m_old_decoration' = S.m_old_decoration
    /\ x_property' = S.x_property
    /\ hint_snapshot' = S.hint_snapshot
    /\ decor0' = S.decor0
    /\ resizing' = S.resizing
    /\ m_last_resize' = S.m_last_resize
    /\ m_button_grab' = S.m_button_grab
    /\ geom0' = geom0
    /\ xlog' = S.xlog
    /\ fault' = S.fault
    /\ last' = l
    /\ UNCHANGED shvars

Op(name, c, f, s, n) == [op |-> name, c |-> c, f |-> f, s |-> s, n |-> n]

\* the waiters of handle c that still declare c
WaitersOf(c) == {w \in Clients : Contains(s_transient_wait[c].list, w)
                                 /\ wm_transient_for[w] = c}

\* a new top-level window c, whose WM_TRANSIENT_FOR reads h, gets its WinClient
Register(c, h, ub) ==
    /\ fault = "none"
    /\ c \notin registered
    /\ Commit(WinClientCtor(Cur, c, h, ub), Op("register", c, 0, WaitersOf(c), h))

\* the application rewrites WM_TRANSIENT_FOR of its window
SetHint(c, h) ==
    /\ fault = "none"
    /\ c \in registered
    /\ wm_transient_for[c] # h
    /\ Commit([Cur EXCEPT !.wm_transient_for[c] = h], Op("sethint", c, 0, {}, h))

\* the client resolves its transient relationship again
UpdateTransient(c) ==
    /\ fault = "none"
    /\ c \in registered
    /\ Commit(updateTransientInfo(Cur, c),
              Op("update", c, 0, {}, wm_transient_for[c]))

SetStateModal(c, state) ==
    /\ fault = "none"
    /\ c \in registered
    /\ Commit(setStateModal(Cur, c, state),
              Op("modal", c, 0, {}, IF state THEN 1 ELSE 0))

\* the titlebar and the handle, each of height 1 with its border, when shown
decorationHeight(S, F) ==
    (IF S.decorations[F].titlebar THEN 1 ELSE 0)
        + (IF S.decorations[F].handle THEN 1 ELSE 0)

\* lines 3187-3190, 3235-3238: an increment of 0 counts as 1
validInc(inc) == IF inc = 0 THEN 1 ELSE inc

\* lines 3176-3183: the clamp of right_fixsize, the maximum compared unsigned
clampRight(d, min, max) ==
    LET a == IF d < ToSigned(min) THEN ToSigned(min) ELSE d
    IN  IF max > 0 /\ UWrap(a) > max THEN ToSigned(max) ELSE a

\* lines 3222-3231: the clamp of left_fixsize, the maximum compared signed
clampLeft(d, min, max) ==
    LET a == IF d < ToSigned(min) THEN ToSigned(min) ELSE d
    IN  IF max > 0 /\ a > ToSigned(max) THEN ToSigned(max) ELSE a

\* lines 3192-3200, 3240-3251: the size in increments and back, on top of
\* the base and of what the decorations take
snapSize(d, inc, base, extra) ==
    ToSigned(ToSigned(UWrap(d) \div validInc(inc)) * validInc(inc) + base + extra)

\* lines 3164-3203
right_fixsize(S, F) ==
    LET sh == S.m_size_hints
        r == S.m_last_resize[F]
        extra == decorationHeight(S, F)
        dx == clampRight(ToSigned(r.w - sh.base_width), sh.min_width, sh.max_width)
        dy == clampRight(ToSigned(r.h - sh.base_height - extra),
                         sh.min_height, sh.max_height)
    IN  [S EXCEPT !.m_last_resize[F].w = snapSize(dx, sh.width_inc, sh.base_width, 0),
                  !.m_last_resize[F].h =
                      snapSize(dy, sh.height_inc, sh.base_height, extra)]

\* lines 3205-3257
left_fixsize(S, F) ==
    LET sh == S.m_size_hints
        r == S.m_last_resize[F]
        g == S.frame_geom[F]
        extra == decorationHeight(S, F)
        dx == clampLeft(ToSigned(g.width + g.x - r.x), sh.min_width, sh.max_width)
        dy == clampLeft(ToSigned(r.h - sh.base_height - extra),
                        sh.min_height, sh.max_height)
        w == snapSize(dx, sh.width_inc, sh.base_width, 0)
    IN  [S EXCEPT !.m_last_resize[F].w = w,
                  !.m_last_resize[F].h =
                      snapSize(dy, sh.height_inc, sh.base_height, extra),
                  !.m_last_resize[F].x = g.x + g.width - w]

\* lines 2899-2926
startResizing(S, F, x, y, left) ==
    LET g == S.frame_geom[F]
        B == [S EXCEPT !.resizing[F] = TRUE,
                       !.m_button_grab[F] = [x |-> x, y |-> y],
                       !.m_last_resize[F] =
                           [x |-> g.x, y |-> g.y, w |-> g.width, h |-> g.height]]
    IN  IF left THEN left_fixsize(B, F) ELSE right_fixsize(B, F)

\* lines 2407-2425: the outline follows the pointer
moveOutline(S, F, me, left) ==
    LET g == S.frame_geom[F]
        grab == S.m_button_grab[F]
        h == g.height + (me.y - grab.y)
        H == [S EXCEPT !.m_last_resize[F].h = IF h < 1 THEN 1 ELSE h]
        x == me.x_root - grab.x
        w == g.width + (me.x - grab.x)
    IN  IF left
        THEN left_fixsize([H EXCEPT !.m_last_resize[F].x =
                                       IF x > g.x + g.width THEN x + g.width - 1
                                       ELSE x], F)
        ELSE right_fixsize([H EXCEPT !.m_last_resize[F].w = IF w < 1 THEN 1 ELSE w],
                           F)

\* lines 2390-2436 of motionNotifyEvent: button 1 held on a grip
resizeMotion(S, F, me, left) ==
    IF S.fault # "none" \/ ~S.functions[F].resize THEN S
    ELSE IF ~S.resizing[F] THEN startResizing(S, F, me.x, me.y, left)
    ELSE moveOutline(S, F, me, left)

\* lines 2929-2949; onGripLeft is the test win && win == gripLeft, false for
\* the default argument of 0
stopResizing(S, F, onGripLeft) ==
    LET X == IF onGripLeft THEN left_fixsize([S EXCEPT !.resizing[F] = FALSE], F)
             ELSE right_fixsize([S EXCEPT !.resizing[F] = FALSE], F)
        r == X.m_last_resize[F]
    IN  moveResize(X, F, r.x, r.y, r.w, r.h)

\* lines 2306-2317: the client whose label button is the event window
\* (0: the event window is no label button of this Frame)
tabUnderPointer(S, F, win) ==
    IF win # 0 /\ S.m_labelbuttons[F][win] = "btn" THEN win ELSE 0

\* lines 2437-2455 of motionNotifyEvent: button 2 held over a tab of the
\* titlebar starts the drag of that tab; later motion only moves the outline
motionNotifyEvent(S, F, win) ==
    LET client == tabUnderPointer(S, F, win)
    IN  IF S.fault # "none" \/ client = 0 THEN S
        ELSE IF S.m_attaching_tab[F] = 0
        THEN [S EXCEPT !.m_attaching_tab[F] = client]
        ELSE S

\* lines 2966-2977: the drop on another Frame attaches the tab there, the
\* drop on no Frame detaches it, the drop on the Frame itself does nothing
dropTab(S, F, tab, attach_to_win, V, ub) ==
    IF S.fault # "none" THEN S
    ELSE IF attach_to_win # F /\ attach_to_win # 0
    THEN attachClient(S, attach_to_win, tab, V, ub)
    ELSE IF attach_to_win # F THEN detachClient(S, F, tab, V, ub)
    ELSE S

\* lines 2951-2981.  m_attaching_tab may point to a client that was deleted:
\* the calls then work on freed memory (ub: nothing comes of it)
attachTo(S, F, attach_to_win, V, ub) ==
    LET tab == S.m_attaching_tab[F]
    IN  IF S.fault # "none" \/ tab = 0 THEN S
        ELSE IF tab \notin S.registered
        THEN IF ub THEN [S EXCEPT !.m_attaching_tab[F] = 0]
             ELSE Fault(S, "dangling_tab")
        ELSE LET D == dropTab(derefLabelButton(S, F, tab, ub), F, tab,
                              attach_to_win, V, ub)
             IN  IF F \in D.frame_live THEN [D EXCEPT !.m_attaching_tab[F] = 0]
                 ELSE D

\* lines 2269-2284: the release of the button ends the resize or the drag;
\* stopResizing is called without a window
buttonReleaseEvent(S, F, attach_to_win, V, ub) ==
    IF S.fault # "none" THEN S
    ELSE IF S.resizing[F] THEN stopResizing(S, F, FALSE)
    ELSE IF S.m_attaching_tab[F] # 0 THEN attachTo(S, F, attach_to_win, V, ub)
    ELSE S

\* a Frame left without a client is deleted
reapFrame(S, F, V, ub) ==
    IF S.fault = "none" /\ F \in S.frame_live /\ S.m_clientlist[F] = <<>>
    THEN FluxboxWindowDtor(S, F, V, ub)
    ELSE S

\* the window is gone: the client is deleted, and so is the Frame it leaves
\* without a client
destroyNotify(S, c, V, ub) ==
    reapFrame(WinClientDtor(S, c, V, ub), S.m_win[c], V, ub)

DestroyClient(c, V, ub) ==
    /\ fault = "none"
    /\ c \in registered
    /\ Commit(destroyNotify(Cur, c, V, ub),
              Op("destroy", c, m_win[c],
                 {x \in Clients : transient_for[x] = c}, transient_for[c]))

\* a client without a Frame gets a FluxboxWindow of its own
CreateFrame(c, managed, ub) ==
    /\ fault = "none"
    /\ c \in registered
    /\ m_win[c] = 0
    /\ FreeFrames(Cur) # {}
    /\ LET F == CHOOSE f \in FreeFrames(Cur) : \A g \in FreeFrames(Cur) : f <= g
       IN  Commit(FluxboxWindowCtor(Cur, F, c, managed, ub),
                  Op("create", c, F, {}, 0))

\* s and n of the record: the clients handed over, and the Frame c came from
AttachClient(F, c, V, ub) ==
    /\ fault = "none"
    /\ F \in frame_live
    /\ c \in registered
    /\ Commit(attachClient(Cur, F, c, V, ub),
              Op("attach", c, F,
                 IF m_win[c] = F THEN {}
                 ELSE IF m_win[c] = 0 THEN {c}
                 ELSE IF m_win[c] \in frame_live
                 THEN {x \in Clients : Contains(m_clientlist[m_win[c]], x)}
                 ELSE {},
                 m_win[c]))

\* n of the record: 1 when the call returned true
CommitCall(S, name, c, F) ==
    Commit(S, Op(name, c, F, {}, IF S.ret THEN 1 ELSE 0))

DetachClient(F, c, V, ub) ==
    /\ fault = "none"
    /\ F \in frame_live
    /\ c \in registered
    /\ CommitCall(detachClient(Cur, F, c, V, ub), "detach", c, F)

\* s of the record: the client list of F before the call
RemoveClient(F, c, V, ub) ==
    /\ fault = "none"
    /\ F \in frame_live
    /\ c \in registered
    /\ Commit(removeClient(Cur, F, c, V, ub),
              Op("remove", c, F, {x \in Clients : Contains(m_clientlist[F], x)},
                 m_client[F]))

DetachCurrentClient(F, V, ub) ==
    /\ fault = "none"
    /\ F \in frame_live
    /\ CommitCall(detachCurrentClient(Cur, F, V, ub), "detachcurrent", m_client[F], F)

\* c of the record: the active client before the call; s: the clients that
\* validateClient accepts; n: 1 when the call returned true
SetInputFocus(F, V, ub) ==
    /\ fault = "none"
    /\ F \in frame_live
    /\ Commit(setInputFocus(Cur, F, V, ub, FocusFuel),
              Op("focus", m_client[F], F, V,
                 IF setInputFocus(Cur, F, V, ub, FocusFuel).ret THEN 1 ELSE 0))

NextClient(F, V, ub) ==
    /\ fault = "none"
    /\ F \in frame_live
    /\ Commit(nextClient(Cur, F, V, ub), Op("next", m_client[F], F, {}, 0))

PrevClient(F, V, ub) ==
    /\ fault = "none"
    /\ F \in frame_live
    /\ Commit(prevClient(Cur, F, V, ub), Op("prev", m_client[F], F, {}, 0))

SetCurrentClient(F, c, setinput, V, ub) ==
    /\ fault = "none"
    /\ F \in frame_live
    /\ c \in registered
    /\ Commit(setCurrentClient(Cur, F, c, setinput, V, ub, FocusFuel),
              Op("setcurrent", c, F, {}, m_client[F]))

\* PropertyNotify for WM_TRANSIENT_FOR reaches the Frame
PropertyNotifyTransient(F) ==
    /\ fault = "none"
    /\ F \in frame_live
    /\ Commit(updateAllTransientInfo(Cur, m_clientlist[F], 1),
              Op("propertynotify", 0, F, {}, 0))

InitT == InitG /\ IdleSH

\* the transient graph on its own: clients without Frames
NextT ==
    \/ \E c \in Clients, h \in HintVals, ub \in BOOLEAN : Register(c, h, ub)
    \/ \E c \in Clients, h \in HintVals : SetHint(c, h)
    \/ \E c \in Clients : UpdateTransient(c)
    \/ \E c \in Clients, b \in BOOLEAN : SetStateModal(c, b)
    \/ \E c \in Clients, ub \in BOOLEAN : DestroyClient(c, Clients, ub)

SpecT == InitT /\ [][NextT]_vars

\* the hints the windows carry at start-up: a window is a plain window or a
\* dialog of a window adopted before it
StartHints == [c \in Clients |-> {NoHint} \cup {p \in Clients : p < c}]

StartHintSets == {h \in [Clients -> {NoHint} \cup Clients] :
                    \A c \in Clients : h[c] \in StartHints[c]}

\* the clients that declare p, in the order of their adoption
RECURSIVE dialogsOf(_, _, _)
dialogsOf(hints, p, c) ==
    IF c > NumClients THEN <<>>
    ELSE (IF hints[c] = p THEN <<c>> ELSE <<>>) \o dialogsOf(hints, p, c + 1)

\* start-up: the windows that exist already are adopted one after the other;
\* each gets its WinClient (WinClient::WinClient), its modal state
\* (setStateModal) and a FluxboxWindow of its own (FluxboxWindow::init)
StartUpG ==
    /\ last = NoLast
    /\ registered = Clients
    /\ wm_transient_for \in StartHintSets
    /\ m_modal \in [Clients -> BOOLEAN]
    /\ transient_for = [c \in Clients |->
                          IF wm_transient_for[c] = NoHint THEN 0
                          ELSE wm_transient_for[c]]
    /\ transients = [p \in Clients |-> dialogsOf(wm_transient_for, p, 1)]
    /\ m_modal_count = [p \in Clients |->
                          Cardinality({c \in Clients : wm_transient_for[c] = p
                                                       /\ m_modal[c]})]
    /\ s_transient_wait = [k \in WaitKeys |-> NoEntry]
    /\ frame_live = Clients
    /\ m_clientlist = [f \in Frames |-> IF f \in Clients THEN <<f>> ELSE <<>>]
    /\ m_client = [f \in Frames |-> IF f \in Clients THEN f ELSE 0]
    /\ m_labelbuttons = [f \in Frames |->
                           [c \in Clients |-> IF c = f THEN "btn" ELSE "none"]]
    /\ m_win = [c \in Clients |-> c]
    /\ group_left = [c \in Clients |-> None]
    /\ accepts_input = [c \in Clients |-> TRUE]
    /\ send_focus_message = [c \in Clients |-> FALSE]
    /\ iconic = [f \in Frames |-> FALSE]
    /\ m_layernum = [f \in Frames |-> NormalLayer]
    /\ layer_item = [f \in Frames |-> NormalLayer]
    /\ oplock = NoLock
    /\ xlog = <<>>
    /\ fault = "none"

\* start-up with no size negotiation in progress
StartUp == IdleSH /\ StartUpG

\* at start-up the modal clients are dialogs
ModalDialogs == \A c \in Clients : m_modal[c] => wm_transient_for[c] # NoHint

InitF == StartUp /\ PlainWindows /\ ModalDialogs /\ budget = MaxFrameOps

\* what one operation finds around it: the clients that validateClient
\* accepts and what undefined behaviour does.  A run in which the process dies
\* on undefined behaviour is taken with no event pending: with an event
\* pending it ends in the same fault or returns as it does with ub TRUE.
Oracles == [V : ValidSets, ub : {TRUE}] \cup [V : {Clients}, ub : {FALSE}]

\* Frames and their tabs
NextF ==
    \/ \E c \in Clients, h \in {NoHint} \cup Clients, ub \in BOOLEAN : Register(c, h, ub)
    \/ \E c \in Clients, m \in BOOLEAN, ub \in BOOLEAN : CreateFrame(c, m, ub)
    \/ \E c \in Clients, o \in Oracles : DestroyClient(c, o.V, o.ub)
    \/ \E F \in Frames, c \in Clients, o \in Oracles : AttachClient(F, c, o.V, o.ub)
    \/ \E F \in Frames, c \in Clients, o \in Oracles : DetachClient(F, c, o.V, o.ub)
    \/ \E F \in Frames, c \in Clients, o \in Oracles : RemoveClient(F, c, o.V, o.ub)
    \/ \E F \in Frames, o \in Oracles : DetachCurrentClient(F, o.V, o.ub)
    \/ \E F \in Frames, o \in Oracles : NextClient(F, o.V, o.ub)
    \/ \E F \in Frames, o \in Oracles : PrevClient(F, o.V, o.ub)
    \/ \E F \in Frames, c \in Clients, i \in BOOLEAN, o \in Oracles :
          SetCurrentClient(F, c, i, o.V, o.ub)
    \/ \E F \in Frames : PropertyNotifyTransient(F)

SpecF == InitF /\ [][NextF]_vars

\* PropertyNotify for WM_HINTS reaches the client (Window.cc 2109)
UpdateWMHints(c, input) ==
    /\ fault = "none"
    /\ c \in registered
    /\ Commit(updateWMHints(Cur, c, input), Op("wmhints", c, 0, {}, 0))

UpdateWMProtocols(c, proto) ==
    /\ fault = "none"
    /\ c \in registered
    /\ Commit(updateWMProtocols(Cur, c, proto), Op("wmprotocols", c, 0, {}, 0))

\* the input model of the clients changes between focus attempts
NextI ==
    \/ \E c \in Clients, input \in InputHints : UpdateWMHints(c, input)
    \/ \E c \in Clients, proto \in ProtocolLists : UpdateWMProtocols(c, proto)
    \/ \E F \in Frames, o \in Oracles : SetInputFocus(F, o.V, o.ub)

SpecI == InitF /\ [][NextI]_vars

\* the application rewrites WM_TRANSIENT_FOR of c and the Frame of c handles
\* the PropertyNotify (Window.cc 2092-2100)
TransientForChanged(c, h) ==
    /\ fault = "none"
    /\ c \in registered
    /\ m_win[c] \in frame_live
    /\ wm_transient_for[c] # h
    /\ Commit(updateAllTransientInfo([Cur EXCEPT !.wm_transient_for[c] = h],
                                     m_clientlist[m_win[c]], 1),
              Op("transientfor", c, m_win[c], {}, h))

Raise(F, env) ==
    /\ fault = "none"
    /\ F \in frame_live
    /\ Commit(raise(Cur, F, env), Op("raise", m_client[F], F, {}, 0))

\* lower() and tempRaise()
Restack(F, kind, env) ==
    /\ fault = "none"
    /\ F \in frame_live
    /\ Commit(restack(Cur, F, kind, env), Op(kind, m_client[F], F, {}, 0))

\* n of the record: the layer asked for
MoveToLayer(F, n, ub) ==
    /\ fault = "none"
    /\ F \in frame_live
    /\ Commit(moveToLayer(Cur, F, n, ub), Op("movetolayer", m_client[F], F, {}, n))

RaiseLayer(F, ub) ==
    /\ fault = "none"
    /\ F \in frame_live
    /\ Commit(raiseLayer(Cur, F, ub), Op("raiselayer", m_client[F], F, {}, 0))

LowerLayer(F, ub) ==
    /\ fault = "none"
    /\ F \in frame_live
    /\ Commit(lowerLayer(Cur, F, ub), Op("lowerlayer", m_client[F], F, {}, 0))

\* n of the record: 1 when the Frame was iconic before the call
Iconify(F, ub) ==
    /\ fault = "none"
    /\ F \in frame_live
    /\ Commit(iconify(Cur, F, ub),
              Op("iconify", m_client[F], F, {}, IF iconic[F] THEN 1 ELSE 0))

\* n of the record: 1 for a call with reassociation
Deiconify(F, reassoc, do_raise, env) ==
    /\ fault = "none"
    /\ F \in frame_live
    /\ Commit(deiconify(Cur, F, reassoc, do_raise, env),
              Op("deiconify", m_client[F], F, {}, IF reassoc THEN 1 ELSE 0))

\* focus attempts on Frames of modal clients, while clients change Frames
\* and transient hints change
NextM ==
    \/ \E F \in Frames, o \in Oracles : SetInputFocus(F, o.V, o.ub)
    \/ \E F \in Frames, c \in Clients, o \in Oracles : AttachClient(F, c, o.V, o.ub)
    \/ \E c \in Clients, h \in {NoHint} \cup Clients : TransientForChanged(c, h)

SpecM == InitF /\ [][NextM]_vars

NotModal == m_modal = [c \in Clients |-> FALSE]

InitR == StartUp /\ PlainWindows /\ NotModal /\ budget = MaxFrameOps

\* stacking order: raise, lower and tempRaise, while transient hints change,
\* Frames are iconified and shown again and clients change Frames
NextR ==
    \/ \E c \in Clients, h \in {NoHint} \cup Clients : TransientForChanged(c, h)
    \/ \E F \in Frames, env \in StackEnvs : Raise(F, env)
    \/ \E F \in Frames, ub \in BOOLEAN : Iconify(F, ub)
    \/ \E F \in Frames, c \in Clients : AttachClient(F, c, Clients, FALSE)
    \/ \E F \in Frames, k \in {"lower", "tempraise"}, env \in StackEnvs :
          Restack(F, k, env)
    \/ \E F \in Frames, r \in BOOLEAN, d \in BOOLEAN, env \in Envs :
          Deiconify(F, r, d, env)

SpecR == InitR /\ [][NextR]_vars

\* stacking layers
NextL ==
    \/ \E F \in Frames, n \in Layers, ub \in BOOLEAN : MoveToLayer(F, n, ub)
    \/ \E F \in Frames, ub \in BOOLEAN : RaiseLayer(F, ub)
    \/ \E F \in Frames, ub \in BOOLEAN : LowerLayer(F, ub)
    \/ \E F \in Frames, ub \in BOOLEAN : Iconify(F, ub)

SpecL == InitR /\ [][NextL]_vars

InitK == StartUp /\ PlainWindows /\ NotModal /\ budget = MaxIconOps

\* iconic state of Frames that hold several clients
NextK ==
    \/ \E F \in Frames, ub \in BOOLEAN : Iconify(F, ub)
    \/ \E F \in Frames, r \in BOOLEAN, d \in BOOLEAN, env \in Envs :
          Deiconify(F, r, d, env)
    \/ \E F \in Frames, c \in Clients : AttachClient(F, c, Clients, FALSE)

SpecK == InitK /\ [][NextK]_vars

\* the geometries a Frame starts with: at least partly on the screen, so that
\* setInputFocus does not place it again (lines 1067-1091)
Geoms == [x : {0 - 1, 0, 1}, y : {0, 1},
          width : {1, 2}, height : {1, 2}]

\* what a member that was never written may hold
JunkVals == {0, 2}

\* what the calls of SpecW and SpecE find around them
WinEnvs == {e \in Envs : e.focusnew /\ (e.V = Clients \/ e.ub)}

\* no window is transient for another
InitW ==
    /\ StartUp
    /\ NotModal
    /\ wm_transient_for = [c \in Clients |-> NoHint]
    /\ \E g \in Geoms : WindowsAt([f \in Frames |-> g])
    /\ budget = MaxWinOps

\* maximize, shade and stick: the calls a window menu or a key binding makes
NextW ==
    \/ \E F \in frame_live, env \in WinEnvs, junk \in JunkVals :
          /\ fault = "none"
          /\ Commit(maximize(Cur, F, env, junk), Op("maximize", m_client[F], F, {}, 0))
    \/ \E F \in frame_live, junk \in JunkVals :
          /\ fault = "none"
          /\ Commit(maximizeHorizontal(Cur, F, junk),
                    Op("maximizehorizontal", m_client[F], F, {}, 0))
    \/ \E F \in frame_live, junk \in JunkVals :
          /\ fault = "none"
          /\ Commit(maximizeVertical(Cur, F, junk),
                    Op("maximizevertical", m_client[F], F, {}, 0))
    \/ \E F \in frame_live, titlebar \in BOOLEAN :
          /\ fault = "none"
          /\ Commit(shade(Cur, F, titlebar),
                    Op("shade", m_client[F], F, {}, IF titlebar THEN 1 ELSE 0))
    \/ \E F \in frame_live :
          /\ fault = "none"
          /\ Commit(stick(Cur, F), Op("stick", m_client[F], F, {}, 0))
    \/ \E F \in frame_live, ub \in BOOLEAN : Iconify(F, ub)

SpecW == InitW /\ [][NextW]_vars

\* what a map request finds: see requestedState
MapInputs == [got : {"none", "Iconic"}, startup : BOOLEAN,
              initial : {"none", "Withdrawn"}]

\* the configure requests: a geometry and a stacking mode
ConfigureRequests == [x : {0, 1}, y : {0}, width : {1, 2}, height : {1},
                      stack : {"none", "above", "below"}]

InitE == StartUp /\ PlainWindows /\ NotModal /\ budget = MaxEventOps

\* the notifications of the display for a window, delivered to a Frame; c of
\* the record is the window, n is 1 when the window is in the client list of F
NextE ==
    \/ \E F \in frame_live, win \in Clients, inp \in MapInputs, env \in WinEnvs :
          /\ fault = "none"
          /\ Commit(mapRequestEvent(Cur, F, win, inp, env),
                    Op("maprequest", win, F, {}, IF Contains(m_clientlist[F], win) THEN 1 ELSE 0))
    \/ \E F \in frame_live, win \in Clients, shown \in BOOLEAN, env \in WinEnvs :
          /\ fault = "none"
          /\ Commit(mapNotifyEvent(Cur, F, win, shown, env),
                    Op("mapnotify", win, F, {}, IF Contains(m_clientlist[F], win) THEN 1 ELSE 0))
    \/ \E F \in frame_live, win \in Clients, env \in WinEnvs :
          /\ fault = "none"
          /\ Commit(unmapNotifyEvent(Cur, F, win, env),
                    Op("unmapnotify", win, F, {}, IF Contains(m_clientlist[F], win) THEN 1 ELSE 0))
    \/ \E F \in frame_live, win \in Clients, req \in ConfigureRequests, env \in WinEnvs :
          /\ fault = "none"
          /\ Commit(configureRequestEvent(Cur, F, win, req, env),
                    Op("configurerequest", win, F, {}, IF Contains(m_clientlist[F], win) THEN 1 ELSE 0))
    \/ \E F \in Frames, c \in Clients : AttachClient(F, c, Clients, FALSE)

SpecE == InitE /\ [][NextE]_vars

\* no window is transient for another, none is modal
InitD ==
    /\ StartUp
    /\ PlainWindows
    /\ NotModal
    /\ wm_transient_for = [c \in Clients |-> NoHint]
    /\ budget = MaxDtorOps

\* tab groups are formed and taken apart, and a Frame is deleted with the
\* clients it holds; s and n of the record of a deletion are the clients the
\* Frame held and their number, c is its active client; a tab is dragged
\* with button 2 and dropped on a Frame or on none: c and n of the record of
\* a motion are the tab under the pointer and the tab that was being dragged,
\* c and n of the record of a release the dragged tab and the drop target
NextD ==
    \/ \E F \in Frames, c \in Clients, o \in Oracles : AttachClient(F, c, o.V, o.ub)
    \/ \E F \in Frames, c \in Clients, o \in Oracles : DetachClient(F, c, o.V, o.ub)
    \/ \E F \in Frames, o \in Oracles : NextClient(F, o.V, o.ub)
    \/ \E c \in Clients, o \in Oracles : DestroyClient(c, o.V, o.ub)
    \/ \E F \in frame_live, win \in Clients :
          /\ fault = "none"
          /\ Commit(motionNotifyEvent(Cur, F, win),
                    Op("motion", tabUnderPointer(Cur, F, win), F, {}, m_attaching_tab[F]))
    \/ \E F \in frame_live, G \in {0} \cup frame_live, o \in Oracles :
          /\ fault = "none"
          /\ Commit(buttonReleaseEvent(Cur, F, G, o.V, o.ub),
                    Op("release", m_attaching_tab[F], F, {}, G))
    \/ \E F \in frame_live, o \in Oracles :
          /\ fault = "none"
          /\ Commit(FluxboxWindowDtor(Cur, F, o.V, o.ub),
                    Op("dtor", m_client[F], F,
                       {x \in Clients : Contains(m_clientlist[F], x)},
                       Len(m_clientlist[F])))

SpecD == InitD /\ [][NextD]_vars

Decorations == {"DECOR_NONE", "DECOR_NORMAL", "DECOR_TINY", "DECOR_TOOL"}

\* lines 2556-2595: the flags of a decoration level; applyDecorations and
\* reconfigure show the result and change no flag
setDecoration(S, F, decoration) ==
    IF decoration = "DECOR_NONE"
    THEN [S EXCEPT !.decorations[F].titlebar = FALSE,
                   !.decorations[F].border = FALSE,
                   !.decorations[F].handle = FALSE,
                   !.decorations[F].iconify = FALSE,
                   !.decorations[F].maximize = FALSE,
                   !.decorations[F].tab = FALSE,
                   !.decorations[F].menu = TRUE]
    ELSE IF decoration = "DECOR_TINY"
    THEN [S EXCEPT !.decorations[F].titlebar = TRUE,
                   !.decorations[F].iconify = TRUE,
                   !.decorations[F].menu = TRUE,
                   !.functions[F].move = TRUE,
                   !.functions[F].iconify = TRUE,
                   !.decorations[F].border = FALSE,
                   !.decorations[F].handle = FALSE,
                   !.decorations[F].maximize = FALSE,
                   !.functions[F].resize = FALSE,
                   !.functions[F].maximize = FALSE]
    ELSE IF decoration = "DECOR_TOOL"
    THEN [S EXCEPT !.decorations[F].titlebar = TRUE,
                   !.decorations[F].menu = TRUE,
                   !.functions[F].move = TRUE,
                   !.decorations[F].iconify = FALSE,
                   !.decorations[F].border = FALSE,
                   !.decorations[F].handle = FALSE,
                   !.decorations[F].maximize = FALSE,
                   !.functions[F].resize = FALSE,
                   !.functions[F].maximize = FALSE,
                   !.functions[F].iconify = FALSE]
    ELSE [S EXCEPT !.decorations[F].titlebar = TRUE,
                   !.decorations[F].border = TRUE,
                   !.decorations[F].handle = TRUE,
                   !.decorations[F].iconify = TRUE,
                   !.decorations[F].maximize = TRUE,
                   !.decorations[F].menu = TRUE,
                   !.functions[F].resize = TRUE,
                   !.functions[F].move = TRUE,
                   !.functions[F].iconify = TRUE,
                   !.functions[F].maximize = TRUE]

\* lines 2627-2643
toggleDecoration(S, F) ==
    IF S.fault # "none" \/ S.shaded[F] THEN S
    ELSE IF S.decorations[F].enabled
    THEN [setDecoration(S, F, "DECOR_NONE") EXCEPT !.decorations[F].enabled = FALSE]
    ELSE [setDecoration(S, F, IF S.m_old_decoration[F] = "DECOR_NONE"
                              THEN "DECOR_NORMAL"
                              ELSE S.m_old_decoration[F])
            EXCEPT !.decorations[F].enabled = TRUE]

\* lines 1016-1019 of getBlackboxHints: a decoration level asked for by the
\* client's _BLACKBOX_HINTS ("none": the hint does not ask)
hintDecoration(S, F, d) ==
    IF d = "none" THEN S
    ELSE setDecoration([S EXCEPT !.m_old_decoration[F] = d], F, d)

\* lines 913-914: WM_DELETE_WINDOW among the protocols
closeFunction(S, F, deletable) ==
    IF deletable THEN [S EXCEPT !.functions[F].close = TRUE] ELSE S

\* lines 438-452: a dialog cannot be maximized, a window of one size can be
\* neither resized nor put in a tab group
sizeDecorations(S, F) ==
    LET mc == S.m_client[F]
        T == IF S.transient_for[mc] # 0
             THEN [S EXCEPT !.decorations[F].maximize = FALSE,
                            !.functions[F].maximize = FALSE,
                            !.decorations[F].handle = FALSE]
             ELSE S
    IN  IF S.hint_snapshot[mc].WM_NORMAL_HINTS = "fixed"
        THEN [T EXCEPT !.decorations[F].maximize = FALSE,
                       !.decorations[F].handle = FALSE,
                       !.functions[F].resize = FALSE,
                       !.functions[F].maximize = FALSE,
                       !.decorations[F].tab = FALSE]
        ELSE T

\* lines 384-452 of FluxboxWindow::init: the flags of a new Frame
initDecorations(S, F, junk, d, deletable) ==
    sizeDecorations(
        closeFunction(
            hintDecoration([S EXCEPT !.decorations[F] = ctorDecorations(junk),
                                     !.functions[F] = ctorFunctions], F, d),
            F, deletable),
        F)

\* lines 415-436 and 471-530 of WinClient.cc, 347-388: the client reads its
\* property again
readProperty(S, this, atom) ==
    LET R == [S EXCEPT !.hint_snapshot[this][atom] = S.x_property[this][atom]]
    IN  IF atom = "WM_HINTS" THEN updateWMHints(R, this, S.x_property[this][atom])
        ELSE R

\* lines 2131-2149: what the size hints of the active client allow
normalHintFlags(S, F) ==
    LET mc == S.m_client[F]
        kind == S.hint_snapshot[mc].WM_NORMAL_HINTS
    IN  IF kind = "none" THEN S
        ELSE IF kind = "fixed"
        THEN [S EXCEPT !.decorations[F].maximize = FALSE,
                       !.decorations[F].handle = FALSE,
                       !.functions[F].resize = FALSE,
                       !.functions[F].maximize = FALSE]
        ELSE IF S.transient_for[mc] = 0
        THEN [S EXCEPT !.decorations[F].maximize = TRUE,
                       !.decorations[F].handle = TRUE,
                       !.functions[F].maximize = TRUE,
                       !.functions[F].resize = TRUE]
        ELSE [S EXCEPT !.functions[F].resize = TRUE]

\* lines 2108-2110, 2117-2126, 2128-2163 of propertyNotifyEvent: the hints,
\* the title and the size hints are read again by the active client; the
\* frame keeps its geometry (upsize, then moveResize to the old values)
propertyNotifyHints(S, F, atom, ub) ==
    LET mc == S.m_client[F]
    IN  IF S.fault # "none" THEN S
        ELSE IF mc = 0 THEN Fault(S, "null_m_client")
        ELSE IF atom = "WM_HINTS" THEN readProperty(S, mc, atom)
        ELSE IF atom = "WM_NAME"
        THEN derefLabelButton(readProperty(S, mc, atom), F, mc, ub)
        ELSE normalHintFlags(readProperty(S, mc, atom), F)

\* lines 1921-1925: the notification is handed on with its atom, the window
\* it is about is not
handleEvent(S, F, window, atom, deleted, ub) ==
    IF deleted THEN S ELSE propertyNotifyHints(S, F, atom, ub)

PropAtoms == {"WM_HINTS", "WM_NAME", "WM_NORMAL_HINTS"}
PropVals(atom) ==
    IF atom = "WM_HINTS" THEN InputHints
    ELSE IF atom = "WM_NAME" THEN Titles ELSE NormalHints

\* operations in a run of SpecP
MaxPropOps == 2
\* pointer events in a run of SpecZ
MaxResizeOps == 3

\* the flags of the Frame that init builds for window f.  A hint for
\* DECOR_NORMAL and no hint leave the same m_old_decoration, and the same flags
\* but for decorations.iconify: the run without the hint is taken
firstFlags(f, junk, deletable) ==
    initDecorations([decorations |-> [g \in Frames |-> ctorDecorations(junk)],
                     functions |-> [g \in Frames |-> ctorFunctions],
                     m_old_decoration |-> m_old_decoration,
                     m_client |-> m_client, transient_for |-> transient_for,
                     hint_snapshot |-> hint_snapshot],
                    f, junk,
                    IF m_old_decoration[f] = "DECOR_NORMAL" THEN "none"
                    ELSE m_old_decoration[f],
                    deletable)

\* the windows are adopted with the size hints, the decoration hint and the
\* protocols they carry; every WinClient has read its properties (WinClient.cc
\* 95-98)
InitP ==
    /\ StartUp
    /\ NotModal
    /\ wm_transient_for \in {[c \in Clients |-> NoHint],
                             [c \in Clients |-> IF c = 2 THEN 1 ELSE NoHint]}
    /\ FramesAt([f \in Frames |-> NewGeom])
    /\ \E kind \in NormalHints :
          x_property = [c \in Clients |-> [NoProps EXCEPT !.WM_NORMAL_HINTS = kind]]
    /\ hint_snapshot = x_property
    /\ \E d \in {"none"} \cup Decorations :
          m_old_decoration = [f \in Frames |-> IF d = "none" THEN "DECOR_NORMAL" ELSE d]
    /\ \E junk \in BOOLEAN, deletable \in BOOLEAN :
          /\ decorations = [f \in Frames |-> firstFlags(f, junk, deletable).decorations[f]]
          /\ functions = [f \in Frames |-> firstFlags(f, junk, deletable).functions[f]]
    /\ decor0 = [f \in Frames |-> [decorations |-> decorations[f],
                                    functions |-> functions[f]]]
    /\ budget = MaxPropOps

\* the decorations are toggled, Frames are shaded, tab groups are formed, and
\* the application rewrites a property of window X, whose Frame handles the
\* PropertyNotify: c, f and s of the record are X, its Frame and the clients
\* of that Frame, n is 1 when the property was deleted
NextP ==
    \/ \E F \in frame_live :
          /\ fault = "none"
          /\ Commit(toggleDecoration(
                        [Cur EXCEPT !.decor0[F] = [decorations |-> decorations[F],
                                                  functions |-> functions[F]]], F),
                    Op("toggledecoration", m_client[F], F, {},
                       IF shaded[F] THEN 1 ELSE 0))
    \/ \E F \in frame_live :
          /\ fault = "none"
          /\ Commit(shade(Cur, F, decorations[F].titlebar),
                    Op("shade", m_client[F], F, {}, 0))
    \/ \E F \in Frames, c \in Clients : AttachClient(F, c, Clients, FALSE)
    \/ \E X \in registered, atom \in PropAtoms, deleted \in BOOLEAN, ub \in BOOLEAN :
          \E v \in PropVals(atom) :
             /\ fault = "none"
             /\ m_win[X] \in frame_live
             /\ deleted \/ v # x_property[X][atom]
             /\ Commit(handleEvent(
                           IF deleted THEN Cur
                           ELSE [Cur EXCEPT !.x_property[X][atom] = v],
                           m_win[X], X, atom, deleted, ub),
                       Op(atom, X, m_win[X],
                          {c \in Clients : Contains(m_clientlist[m_win[X]], c)},
                          IF deleted THEN 1 ELSE 0))

SpecP == InitP /\ [][NextP]_vars

\* the width hints of the client that is resized; heights and aspect ratios
\* are the defaults
ResizeHints ==
    { [DefaultSizeHints EXCEPT !.min_width = mw, !.max_width = xw,
                               !.width_inc = iw, !.base_width = bw] :
        mw \in MinVals, xw \in MaxVals, iw \in IncVals, bw \in BaseVals }

\* where the pointer is: x and y relative to the grip, x_root on the screen
Pointers == [x : {0, 2, 3}, y : {0, 1}, x_root : {0 - 1, 1}]

InitZ ==
    /\ StartUpG
    /\ PlainWindows
    /\ NotModal
    /\ wm_transient_for = [c \in Clients |-> NoHint]
    /\ m_size_hints \in ResizeHints
    /\ arg_width = 0
    /\ arg_height = 0
    /\ arg_maximizing = FALSE
    /\ ub_cast = IntMin
    /\ res1 = NoRes
    /\ res2 = NoRes
    /\ sh_pc = "start"
    /\ budget = MaxResizeOps

\* a grip is dragged with button 1 and let go; s and n of the record of a
\* release are whether a resize ended and the width handed to moveResize
NextZ ==
    \/ \E F \in frame_live, me \in Pointers, left \in BOOLEAN :
          /\ budget > 0
          /\ Commit(resizeMotion(Cur, F, me, left),
                    Op("motion", m_client[F], F, {}, IF left THEN 1 ELSE 0))
    \/ \E F \in frame_live :
          /\ budget > 0
          /\ Commit(buttonReleaseEvent(Cur, F, 0, Clients, FALSE),
                    Op("release", m_client[F], F,
                       IF resizing[F] THEN {m_client[F]} ELSE {},
                       buttonReleaseEvent(Cur, F, 0, Clients, FALSE).m_last_resize[F].w))

SpecZ == InitZ /\ [][NextZ]_vars

-----------------------------------------------------------------------------
(***************************************************************************)
(* The transient graph.  A postcondition is stated for calls that return:  *)
(* a run that stops in a fault has no state after the call.                *)
(***************************************************************************)
\* the client k steps up the transient_for chain of c (0 past the top)
RECURSIVE Ancestor(_, _)
Ancestor(c, k) ==
    IF k = 0 THEN c
    ELSE LET p == Ancestor(c, k - 1)
         IN  IF p \in Clients THEN transient_for[p] ELSE 0

AncestorsOf(c) == {Ancestor(c, k) : k \in 1 .. NumClients} \ {0}

\* C1: after any sequence of registrations, re-resolutions and destructions
\* the transient_for relation over registered clients is acyclic: following
\* transient_for from a client never returns to that client.
C1_Acyclic == \A c \in registered : c \notin AncestorsOf(c)

\* a re-resolution has just cleared the edge that would have closed a cycle:
\* w declares the client, is still in its list, and has lost its transient_for
C1_Witness ==
    /\ last.op \in {"update", "register"}
    /\ fault = "none"
    /\ transient_for[last.c] # 0
    /\ \E w \in registered :
          /\ wm_transient_for[w] = last.c
          /\ Contains(transients[last.c], w)
          /\ transient_for[w] = 0
          /\ w \in AncestorsOf(last.c)

\* a registration of a client whose declared target has no client yet
WaitingRegistration ==
    /\ last.op = "register"
    /\ fault = "none"
    /\ last.n \in Clients \ {last.c}
    /\ last.n \notin registered

\* a registration that found waiters still declaring the new client
ResolvingRegistration ==
    /\ last.op = "register"
    /\ fault = "none"
    /\ last.s # {}

\* C2 (as stated): a client B registered while its declared handle h names no
\* client waits on the entry keyed h; once A with handle h registers, B still
\* declaring h, B.transient_for = A, A.transients contains B and no wait-list
\* entry is keyed h.
C2_WaitThenResolve ==
    /\ WaitingRegistration => Contains(s_transient_wait[last.n].list, last.c)
    /\ ResolvingRegistration =>
          /\ \A B \in last.s : /\ transient_for[B] = last.c
                               /\ Contains(transients[last.c], B)
          /\ ~s_transient_wait[last.c].present

\* C2 (amended): as C2, except for a waiter B that A's own transient chain
\* leads back to: the cycle walk of A's own resolution clears the edge
\* B -> A, so that B ends with no transient_for.
C2_WaitThenResolveUnlessCycle ==
    /\ WaitingRegistration => Contains(s_transient_wait[last.n].list, last.c)
    /\ ResolvingRegistration =>
          /\ \A B \in last.s :
                IF B \in AncestorsOf(last.c)
                THEN transient_for[B] = 0
                ELSE /\ transient_for[B] = last.c
                     /\ Contains(transients[last.c], B)
          /\ ~s_transient_wait[last.c].present

\* A registered and a waiter became its transient
C2_Witness ==
    /\ ResolvingRegistration
    /\ \E B \in last.s : transient_for[B] = last.c

\* C3: destroying a client P sets transient_for to none for every client
\* whose transient_for was P, destroys none of them, and removes P from the
\* transients list of P's own parent.
C3_DestroyOrphans ==
    (last.op = "destroy" /\ fault = "none") =>
        /\ \A x \in last.s : x \in registered /\ transient_for[x] = 0
        /\ last.n # 0 => ~Contains(transients[last.n], last.c)

\* a client with a parent and with transients of its own was destroyed
C3_Witness ==
    /\ last.op = "destroy"
    /\ fault = "none"
    /\ last.s # {}
    /\ last.n \in registered

\* C19: when a client's declared transient-for handle is none, the root
\* handle or the client's own handle, resolution leaves the client
\* non-transient: its transient_for is none, it is in no client's transients
\* list and it is on no wait-list entry.
C19_NotTransient ==
    (/\ last.op \in {"register", "update"}
     /\ fault = "none"
     /\ last.n \in {None, RootWin, last.c}) =>
        /\ transient_for[last.c] = 0
        /\ \A p \in Clients : ~Contains(transients[p], last.c)
        /\ \A k \in WaitKeys : ~Contains(s_transient_wait[k].list, last.c)

\* the wait-list entries the client c is on
WaitingOn(c) == {k \in WaitKeys : Contains(s_transient_wait[k].list, c)}

\* C20: after any re-resolution of a client's transient relationship the
\* client is on at most one wait-list entry, that entry is keyed by its
\* currently declared unregistered target, and the client is on no entry when
\* its transient_for is set or when it is resolved as non-transient.
C20_OneWaitEntry ==
    (last.op = "update" /\ fault = "none") =>
        LET c == last.c
        IN  /\ Cardinality(WaitingOn(c)) <= 1
            /\ \A k \in WaitingOn(c) :
                  /\ Count(s_transient_wait[k].list, c) = 1
                  /\ k = wm_transient_for[c]
                  /\ k \notin registered
            /\ transient_for[c] # 0 => WaitingOn(c) = {}
            /\ wm_transient_for[c] \in {NoHint, None, RootWin, c} => WaitingOn(c) = {}

\* the registered modal clients whose transient_for is p
ModalChildren(p) == {c \in registered : m_modal[c] /\ transient_for[c] = p}

\* C21: after any sequence of registrations, re-resolutions, setStateModal
\* calls and destructions, the modal-descendant count of every client is the
\* number of live modal clients whose transient_for is that client.
C21_ModalCountExact ==
    fault = "none" =>
        \A p \in registered : m_modal_count[p] = Cardinality(ModalChildren(p))

\* C25: after every completed operation the two directions of the transient
\* edge agree: B is in the transients list of A exactly once if and only if
\* the transient_for of B is A.
C25_EdgeBothWays ==
    fault = "none" =>
        \A a \in registered, b \in registered :
            Count(transients[a], b) = IF transient_for[b] = a THEN 1 ELSE 0

\* C26: after any sequence of registrations, re-resolutions and destructions
\* no transient_for and no transients list of a live client refers to a
\* destroyed client.
C26_NoDanglingEdge ==
    fault = "none" =>
        \A c \in registered :
            /\ transient_for[c] \in registered \cup {0}
            /\ \A i \in 1 .. Len(transients[c]) : transients[c][i] \in registered

\* C27: the transient wait list never contains a destroyed client, never
\* keeps an empty entry and never keeps an entry keyed by the handle of a
\* registered client.
C27_WaitListClean ==
    fault = "none" =>
        \A k \in WaitKeys :
            /\ \A i \in 1 .. Len(s_transient_wait[k].list) :
                  s_transient_wait[k].list[i] \in registered
            /\ s_transient_wait[k].present => s_transient_wait[k].list # <<>>
            /\ s_transient_wait[k].present => k \notin registered

\* the awaited client last.c has registered and resolved its waiters, its
\* entry is gone, and another client is still waiting for its own target
C27_Witness ==
    /\ fault = "none"
    /\ last.op = "register"
    /\ last.s # {}
    /\ ~s_transient_wait[last.c].present
    /\ \E k \in WaitKeys : s_transient_wait[k].present

-----------------------------------------------------------------------------
(***************************************************************************)
(* Frames.  The formulas below compare the state before an operation with  *)
(* the state after it; last' names the operation of the step.              *)
(***************************************************************************)
\* the step is attachClient(c) on F, c in no position of F, and it returns
AttachStep ==
    /\ last'.op = "attach"
    /\ fault' = "none"
    /\ m_win[last'.c] # last'.f

\* the step is attachClient(c) on F where c belongs to another live Frame
AttachFromFrame ==
    /\ AttachStep
    /\ m_win[last'.c] \in frame_live
    /\ Contains(m_clientlist[m_win[last'.c]], last'.c)

\* C7: attachClient(c) on Frame F, c belonging to another Frame G, appends
\* all of G's clients to the end of F's list in G's order, sets the owning
\* Frame of every migrated client to F, creates one tab indicator in F per
\* migrated client, and destroys G without destroying any client.
C7_AttachSplices ==
    [][AttachFromFrame =>
         LET F == last'.f
             G == m_win[last'.c]
         IN  /\ m_clientlist'[F] = m_clientlist[F] \o m_clientlist[G]
             /\ \A x \in Clients : Contains(m_clientlist[G], x) =>
                   /\ m_win'[x] = F
                   /\ m_labelbuttons'[F][x] = "btn"
             /\ G \notin frame_live'
             /\ registered' = registered]_vars

\* a Frame with clients of its own has taken over a Frame with two clients
C7_Witness ==
    /\ last.op = "attach"
    /\ fault = "none"
    /\ last.n \in Frames \ {last.f}
    /\ Cardinality(last.s) >= 2
    /\ Len(m_clientlist[last.f]) > Cardinality(last.s)
    /\ \A x \in last.s : m_win[x] = last.f

\* C8 (as stated): after attachClient(c) on Frame F with c not already in F,
\* c is F's active client, whether c came from another Frame or had none.
C8_AttachedIsActive ==
    [][AttachStep => m_client'[last'.f] = last'.c]_vars

\* C8 (amended): after attachClient(c) on Frame F with c not already in F,
\* F's active client is the client that was active before the call, whether
\* c came from another Frame or had none.
C8_ActiveKept ==
    [][AttachStep => m_client'[last'.f] = m_client[last'.f]]_vars

\* a client without a Frame was attached and another client is the active one
C8_Witness ==
    /\ last.op = "attach"
    /\ fault = "none"
    /\ last.n = 0
    /\ m_win[last.c] = last.f
    /\ m_client[last.f] # last.c

\* detachClient(c) on F is called with c not of F or with F holding one client
RefusedDetach ==
    /\ last'.op = "detach"
    /\ \/ m_win[last'.c] # last'.f
       \/ Len(m_clientlist[last'.f]) = 1

\* C9: detachClient(c) on Frame F returns false and changes nothing (client
\* list, active client, owning-Frame references, left-neighbour references)
\* when c does not belong to F or F has exactly one client.
C9_DetachRefuses ==
    [][RefusedDetach =>
         /\ last'.n = 0
         /\ fault' = "none"
         /\ UNCHANGED <<m_clientlist, m_client, m_win, group_left>>]_vars

\* detachClient was refused for the only client of its Frame
C9_Witness ==
    /\ last.op = "detach"
    /\ last.n = 0
    /\ fault = "none"
    /\ m_win[last.c] = last.f
    /\ m_clientlist[last.f] = <<last.c>>

\* C10: detaching a client that is not the active client from a Frame with
\* two or more clients leaves the relative tab order of the remaining clients
\* and the active client unchanged, and the detached client has no owning
\* Frame afterwards.
C10_DetachKeepsActive ==
    [][(/\ last'.op = "detach"
        /\ fault' = "none"
        /\ m_win[last'.c] = last'.f
        /\ Len(m_clientlist[last'.f]) >= 2
        /\ m_client[last'.f] # last'.c) =>
         /\ m_clientlist'[last'.f] = SeqRemove(m_clientlist[last'.f], last'.c)
         /\ m_client'[last'.f] = m_client[last'.f]
         /\ m_win'[last'.c] = 0]_vars

\* the step is removeClient(c) on F, c the active client of F, and it returns
RemoveActiveStep ==
    /\ last'.op = "remove"
    /\ fault' = "none"
    /\ m_win[last'.c] = last'.f
    /\ m_client[last'.f] = last'.c
    /\ Contains(m_clientlist[last'.f], last'.c)

\* C11: removeClient(c) on Frame F with c the active client: the active client
\* becomes c's successor if c is not last in tab order, c's predecessor if c
\* is last and not the only client, none if c was the only client; in every
\* case c is no longer in F's list.
C11_RemoveActiveFallsOver ==
    [][RemoveActiveStep =>
         LET F == last'.f
             l == m_clientlist[F]
             i == IndexOf(l, last'.c)
         IN  /\ ~Contains(m_clientlist'[F], last'.c)
             /\ m_client'[F] = IF Len(l) = 1 THEN 0
                               ELSE IF i = Len(l) THEN l[i - 1]
                               ELSE l[i + 1]]_vars

\* C12: for every live Frame, after any sequence of attachClient,
\* detachClient, removeClient, setCurrentClient, nextClient, prevClient and
\* client destructions, the active client is a member of the Frame's client
\* list whenever that list is non-empty.
C12_ActiveInList ==
    fault = "none" =>
        \A F \in frame_live :
            m_clientlist[F] # <<>> => Contains(m_clientlist[F], m_client[F])

\* the active client of a Frame with several clients was removed or destroyed
\* and the Frame has an active client of its list again
C12_Witness ==
    /\ last.op \in {"remove", "destroy"}
    /\ fault = "none"
    /\ last.f \in frame_live
    /\ (last.op = "remove" => last.n = last.c)
    /\ m_win[last.c] = 0
    /\ Len(m_clientlist[last.f]) >= 2
    /\ Contains(m_clientlist[last.f], m_client[last.f])

-----------------------------------------------------------------------------
\* the requests of kind k that the last operation sent
Sent(k) == {xlog[i].id : i \in {j \in 1 .. Len(xlog) : xlog[j].k = k}}

\* the modal clients that are transient for A, listed by A and in a Frame
ModalTransients(A) ==
    {T \in registered : /\ transient_for[T] = A
                        /\ Contains(transients[A], T)
                        /\ m_modal[T]
                        /\ m_win[T] \in frame_live}

\* the first modal client in the transient list of A, or 0
FirstModal(A) ==
    LET l == transients[A]
        I == {i \in 1 .. Len(l) : l[i] \in registered /\ m_modal[l[i]]}
    IN  IF I = {} THEN 0 ELSE l[CHOOSE i \in I : \A j \in I : i <= j]

\* a call of setInputFocus that returned, on a Frame whose active client is
\* modal and has a modal transient
ModalFocusStep ==
    /\ last'.op = "focus"
    /\ fault' = "none"
    /\ last'.c # 0
    /\ m_modal[last'.c]
    /\ ModalTransients(last'.c) # {}

GloballyActiveStep ==
    /\ last'.op = "focus"
    /\ fault' = "none"
    /\ last'.c # 0
    /\ last'.c \in last'.s
    /\ ~(m_modal[last'.c] /\ transients[last'.c] # <<>>)
    /\ ~accepts_input[last'.c]
    /\ send_focus_message[last'.c]

\* C14: a focus attempt on a Frame whose active client is globally active
\* (no direct input, take-focus supported) and has no modal redirect sends
\* the take-focus message to that client and reports success.
C14_TakeFocusSent ==
    [][GloballyActiveStep =>
         /\ last'.c \in Sent("takefocus")'
         /\ last'.n = 1]_vars

RECURSIVE raisedFrom(_)
raisedFrom(i) ==
    IF i > Len(xlog) THEN <<>>
    ELSE (IF xlog[i].k = "raise" THEN <<xlog[i].id>> ELSE <<>>) \o raisedFrom(i + 1)

Raised == raisedFrom(1)

\* l -> m -> r is a transient chain, r has no parent, and each of the three is
\* the active client of its own Frame, which is not iconic
Chain(l, m, r) ==
    /\ transient_for[l] = m
    /\ transient_for[m] = r
    /\ transient_for[r] = 0
    /\ Cardinality({m_win[l], m_win[m], m_win[r]}) = 3
    /\ \A x \in {l, m, r} : /\ m_win[x] \in frame_live
                              /\ m_client[m_win[x]] = x
                              /\ ~iconic[m_win[x]]

\* C15: for a transient chain leaf -> mid -> root, raise() on the Frame of
\* the leaf raises the Frame of the root, then the Frame of mid, then the
\* Frame of the leaf, each exactly once.
C15_RaiseRootFirst ==
    [][\A l, m, r \in Clients :
         (Chain(l, m, r) /\ last'.op = "raise" /\ last'.f = m_win[l]
          /\ fault' = "none")
         => Raised' = <<m_win[r], m_win[m], m_win[l]>>]_vars

\* the clients below root in its transient tree, at any depth
Descendants(root) ==
    {d \in registered \ {root} : getRootTransientFor(Cur, d, NumClients) = root}

\* C16: after moveToLayer(n), raiseLayer() or lowerLayer() on a Frame of a
\* transient tree, the Frame of every non-iconic transient descendant of the
\* root of the tree, at any depth, the Frame of the call included, is in the
\* layer of the Frame of the root.
C16_TreeInOneLayer ==
    [][(last'.op \in {"movetolayer", "raiselayer", "lowerlayer"} /\ fault' = "none")
         => LET root == chainRoot(Cur, last'.f)
            IN  (root # 0 /\ m_win[root] \in frame_live)
                => \A d \in Descendants(root) :
                      (m_win[d] \in frame_live /\ ~iconic'[m_win[d]])
                      => /\ layer_item'[m_win[d]] = layer_item'[m_win[root]]
                         /\ m_layernum'[m_win[d]] = m_layernum'[m_win[root]]]_vars

\* the transient parent of c, its parent, and so on
RECURSIVE ancestorsFrom(_, _)
ancestorsFrom(c, fuel) ==
    IF fuel = 0 \/ transient_for[c] = 0 THEN {}
    ELSE {transient_for[c]} \cup ancestorsFrom(transient_for[c], fuel - 1)

Ancestors(c) == ancestorsFrom(c, NumClients)

\* a call of iconify that returned, on a Frame that was not iconic
IconifyStep == last'.op = "iconify" /\ last'.n = 0 /\ fault' = "none"

Between(c, a) == {b \in Ancestors(c) : a \in Ancestors(b)}

C18_ChildrenShown ==
    [][(last'.op = "deiconify" /\ last'.n = 1 /\ fault' = "none") =>
         \A c \in Clients : Contains(m_clientlist[last'.f], c) =>
            \A t \in registered :
               (transient_for[t] = c /\ m_win[t] \in frame_live) => ~iconic'[m_win[t]]]_vars

\* C28: raise(), lower() and tempRaise() on a Frame that is not iconic,
\* iconify() and deiconify() return having restacked, hidden or shown each
\* Frame at most once: no request to raise, lower, temporarily raise, hide or
\* show a Frame occurs twice among the requests of the call.
C28_EachFrameOnce ==
    [][(fault' = "none"
        /\ last'.op \in {"raise", "lower", "tempraise", "iconify", "deiconify"}
        /\ (last'.op \in {"raise", "lower", "tempraise"} => ~iconic[last'.f]))
       => \A i, j \in 1 .. Len(xlog') :
             (xlog'[i] = xlog'[j]
              /\ xlog'[i].k \in {"raise", "lower", "tempraise", "hide", "show"})
             => i = j]_vars

\* C29: between operations, that is in every state the program is in when no
\* raise, lower, tempRaise or deiconify is executing, the reentrancy flag of
\* every Frame is false.
C29_LocksReleased == fault = "none" => oplock = NoLock

\* deiconify with reassociation and raise has returned: it showed its own
\* Frame and the Frame of a transient, raised Frames, and left no flag set
C29_Witness ==
    /\ fault = "none"
    /\ last.op = "deiconify"
    /\ Cardinality(Sent("show")) >= 2
    /\ Sent("raise") # {}
    /\ oplock = NoLock

\* C30: raise() on a Frame W that is not iconic raises the layer item of W.
C30_RaisesItself ==
    [][(fault' = "none" /\ last'.op = "raise" /\ ~iconic[last'.f])
       => \E i \in 1 .. Len(xlog') : xlog'[i] = [k |-> "raise", id |-> last'.f]]_vars

\* C22: a Frame whose maximize state is none again, after calls of maximize(),
\* maximizeHorizontal() and maximizeVertical() and no other change of its
\* geometry, has the position and the size it started with.
C22_RestoresGeometry ==
    fault = "none" =>
        \A F \in frame_live : maximized[F] = {} => frame_geom[F] = geom0[F]

\* C23: shade() and stick() change neither the iconic flag of the Frame nor
\* the window state published for its clients.
C23_ShadeStickKeepState ==
    [][(last'.op \in {"shade", "stick"} /\ fault' = "none")
       => /\ iconic'[last'.f] = iconic[last'.f]
          /\ wm_state'[last'.f] = wm_state[last'.f]]_vars

\* a map, unmap, map-request or configure-request notification for a window
\* that is not in the client list of the Frame it is delivered to
UnknownWindowStep ==
    /\ last'.op \in {"maprequest", "mapnotify", "unmapnotify", "configurerequest"}
    /\ last'.n = 0

\* C24: a map, unmap, map-request or configure-request notification delivered
\* to a Frame for a window that is not in its client list changes nothing:
\* client lists, active clients, iconic flags, window states and geometry
\* stay as they are.
C24_UnknownWindowNoOp ==
    [][UnknownWindowStep =>
         /\ fault' = "none"
         /\ xlog' = <<>>
         /\ UNCHANGED <<m_clientlist, m_client, iconic, m_current_state,
                        wm_state, frame_geom, registered, m_win>>]_vars

\* a Frame has received a notification for a window that is a client of
\* another Frame
C24_Witness ==
    /\ last.op \in {"maprequest", "mapnotify", "unmapnotify", "configurerequest"}
    /\ last.n = 0
    /\ last.c \in registered
    /\ m_win[last.c] \in frame_live \ {last.f}
    /\ m_clientlist[last.f] # <<>>

\* C31: within each live Frame the stored left neighbour of the first client
\* is none and the stored left neighbour of every other client is the window
\* of its predecessor in the tab order.
C31_LeftNeighbours ==
    fault = "none" =>
        \A F \in frame_live : \A i \in 1 .. Len(m_clientlist[F]) :
            group_left[m_clientlist[F][i]] =
                IF i = 1 THEN None ELSE m_clientlist[F][i - 1]

\* C32: after every completed operation a client is in the tab order of a
\* live Frame F exactly when its owning-Frame reference is F, the keys of the
\* tab-indicator map of F are the clients of F, and no live client refers to
\* a Frame that was destroyed.
C32_OwnershipAgrees ==
    fault = "none" =>
        /\ \A F \in frame_live : \A c \in registered :
               /\ Contains(m_clientlist[F], c) <=> m_win[c] = F
               /\ m_labelbuttons[F][c] # "none" <=> Contains(m_clientlist[F], c)
        /\ \A c \in registered : m_win[c] # 0 => m_win[c] \in frame_live

\* C33: the destruction of a Frame that holds clients, however many, comes to
\* its end, and it does not act through a null active-client pointer.
C33_DtorCompletes ==
    last.op = "dtor" => fault \notin {"destructor_loop", "null_m_client"}

\* C34: a focus attempt on a Frame comes to an end: the redirects from a
\* modal client to its modal transient and on from there stop after finitely
\* many steps, whatever the transient lists and the modal flags hold.
C34_FocusTerminates == fault # "focus_recursion"

\* C35: the modal redirect of a focus attempt never goes through a transient
\* that has no Frame: the transient that setInputFocus picks has a Frame, or
\* the redirect is left out.
C35_RedirectHasFrame == fault # "null_fbwindow"

\* C36: while a tab is being dragged on a Frame (its attaching-tab reference
\* is not none) the client referred to exists and is in the client list of
\* that Frame; when the client is removed or destroyed during the drag, the
\* drag has been given up before the button release is handled.
C36_DraggedTabIsMember ==
    fault = "none" =>
        \A F \in frame_live :
            m_attaching_tab[F] # 0 =>
                /\ m_attaching_tab[F] \in registered
                /\ Contains(m_clientlist[F], m_attaching_tab[F])

\* a hint-change notification for window X was handled by the Frame of X,
\* which holds several clients, and the handler returned
HintChangeStep ==
    /\ last'.op \in PropAtoms
    /\ last'.n = 0
    /\ Cardinality(last'.s) >= 2
    /\ fault' = "none"

\* C37: a hint-change notification (WM hints, size hints or title) for client
\* X in a Frame of several clients brings the hint snapshot of X up to date
\* and leaves the snapshots of the other clients of the Frame as they were,
\* also when X is not the active client.
C37_RefreshesNotifiedClient ==
    [][HintChangeStep =>
         /\ hint_snapshot'[last'.c][last'.op] = x_property'[last'.c][last'.op]
         /\ \A o \in last'.s \ {last'.c} : hint_snapshot'[o] = hint_snapshot[o]]_vars

\* C40: toggleDecoration applied twice to a Frame that is not shaded brings
\* every decoration flag, the tab flag among them, and every function flag
\* (resize, move, iconify, maximize, close) back to its value before the
\* first call.
C40_ToggleTwiceRestores ==
    [][(/\ last.op = "toggledecoration"
        /\ last'.op = "toggledecoration"
        /\ last.f = last'.f
        /\ last.n = 0
        /\ last'.n = 0
        /\ fault' = "none") =>
         /\ decorations'[last.f] = decor0[last.f].decorations
         /\ functions'[last.f] = decor0[last.f].functions]_vars

NoAspect == m_size_hints.min_aspect_y = 0 /\ m_size_hints.max_aspect_y = 0

\* C39: the width committed when an interactive resize ends (the fixsize step
\* of stopResizing, then moveResize) is at least min_width and, where
\* max_width > 0, at most max_width, for every base width and increment.
C39_CommittedWidthInBounds ==
    (last.op = "release" /\ last.s # {} /\ fault = "none") =>
        /\ frame_geom[last.f].width >= m_size_hints.min_width
        /\ m_size_hints.max_width > 0 =>
               frame_geom[last.f].width <= m_size_hints.max_width

\* C38: for hints without aspect ratios and every proposed width and height,
\* the size applySizeHints returns is accepted by checkSizeHints, also for
\* hints whose maximum is 0 (unbounded) and hints whose minimum is not on the
\* grid of base plus increments.
C38_AppliedSizeAccepted ==
    (sh_pc = "applied" /\ NoAspect) =>
        checkSizeHints(m_size_hints, UWrap(res1.width), UWrap(res1.height))

\* C4: applySizeHints is idempotent: applying it to its own output returns the
\* same width, height and cell counts, for every hint set and every input.
C4_Idempotent == sh_pc = "reapplied" => res2 = res1

\* the clamp of the specification: [min, max], max of 0 meaning unbounded
SpecClamp(v, lo, hi) ==
    LET a == IF v < lo THEN lo ELSE v
    IN  IF hi > 0 /\ a > hi THEN hi ELSE a

\* C5: without aspect ratios the result is the clamped size quantized with
\* cell = floor((clamped - base) / inc) and size = cell * inc + base, for
\* every input including clamped values smaller than base.
C5_ClampThenFloor ==
    (sh_pc = "applied" /\ NoAspect) =>
        LET cw == SpecClamp(arg_width, m_size_hints.min_width, m_size_hints.max_width)
            ch == SpecClamp(arg_height, m_size_hints.min_height, m_size_hints.max_height)
            cx == (cw - m_size_hints.base_width) \div m_size_hints.width_inc
            cy == (ch - m_size_hints.base_height) \div m_size_hints.height_inc
        IN  /\ res1.display_width = cx
            /\ res1.display_height = cy
            /\ res1.width = cx * m_size_hints.width_inc + m_size_hints.base_width
            /\ res1.height = cy * m_size_hints.height_inc + m_size_hints.base_height

\* C6: with maximizing = true and a proposed size at least the minimum size in
\* both dimensions, the returned width and height never exceed the proposed ones.
C6_MaximizingNeverGrows ==
    (sh_pc = "applied" /\ arg_maximizing
        /\ arg_width >= m_size_hints.min_width
        /\ arg_height >= m_size_hints.min_height) =>
        (res1.width <= arg_width /\ res1.height <= arg_height)

====
